---------------------------- MODULE Spec2Model ----------------------------
(***************************************************************************)
(* A model of the bwtc block compressor: the packed-integer codec, the     *)
(* Huffman block framing (header, shape, symbol codes, gamma run lengths,  *)
(* trailer), the frequency table of the preprocessors and the driver loops *)
(* of compress and Decompressor::decompress.                               *)
(*                                                                         *)
(* A 64-bit unsigned value is kept as the set of the positions (0..63) of   *)
(* its set bits, so shifts and masks lose exactly the bits the machine     *)
(* loses.                                                                  *)
(***************************************************************************)
EXTENDS Integers, Sequences, FiniteSets, TLC

VARIABLES
  pc,               \* position of the running routine
  m_in,             \* input stream of a decoder: the bytes of the file
  in_pos,           \* number of bytes of m_in consumed so far
  m_out,            \* output stream of an encoder: the bytes written so far
  integer,          \* PackInteger: the value to pack (64 bits)
  packed_integer,   \* the packed value (64 bits)
  bytes_needed,     \* PackInteger: *bytes_needed
  rpi_i,            \* readPackedInteger: the loop counter i
  rpi_packed,       \* readPackedInteger: the value accumulated so far
  unpacked,         \* UnpackInteger: the result (64 bits)
  stats,            \* encoder: *stats, the statistics and then the section lengths
  wbh_i,            \* writeBlockHeader: the index i of the section loop
  wbh_sum,          \* writeBlockHeader: sum
  temp,             \* writeBlockHeader: temp, the sections closed so far
  m_headerPosition,         \* HuffmanEncoder::m_headerPosition
  m_compressedBlockLength,  \* HuffmanEncoder::m_compressedBlockLength
  compressed_length,        \* readBlockHeader: the 48-bit length read
  sects,            \* readBlockHeader: the number of sections to read
  context_lengths,  \* decodeBlock: the section lengths read from the header
  in_bit,           \* bit reader: bits of byte in_pos already consumed (0..7)
  LFpowers,         \* writeTrailer: the LF powers to write
  wt_i,             \* writeTrailer: the index i of the outer loop
  wt_s,             \* writeTrailer: the byte s being filled
  bitsLeft,         \* writeTrailer: bitsLeft
  wt_bytes,         \* writeTrailer: bytes, the value returned
  rd_LFpowers,      \* decodeBlock: the LF powers read from the trailer
  clen,             \* encodeData: clen[256], indexed by symbol 0..255
  d_clen,           \* decodeBlock: clen[256] filled by deserializeShape
  ds_symbols,       \* deserializeShape: symbols
  ds_maxLen,        \* deserializeShape: maxLen
  alphabet,         \* deserializeShape: alphabet
  ds_i,             \* deserializeShape: the index i of the loop over symbols
  bitsRead,         \* deserializeShape: bitsRead
  runseq,           \* encodeData: runseq[0..nRuns), the symbols of the runs
  runlen,           \* encodeData: runlen[0..nRuns), the lengths of the runs
  code,             \* encodeData: code[256]
  buffer,           \* encodeData: buffer (64 bits)
  bitsInBuffer,     \* encodeData: bitsInBuffer
  enc_k,            \* encodeData: the index k of the loop over the runs
  d_nRuns,          \* decodeBlock: nRuns
  d_code,           \* decodeBlock: code[256]
  len0,             \* decodeBlock: len0
  code0,            \* decodeBlock: code0
  d_buffer,         \* decodeBlock: buffer (a byte)
  d_bits,           \* decodeBlock: bitsInBuffer
  zeroCount,        \* decodeBlock: zeroCount
  d_lookup,         \* decodeBlock: the greatest zeroCount that indexed the tables
  d_straddle,       \* decodeBlock: the codes ended in b and in nextb so far
  d_runseq,         \* decodeBlock: runseq[0..haveDecoded)
  d_runlen,         \* decodeBlock: runlen[0..k), each of 32 bits
  ed_block,         \* encodeData: *block, as the list of its runs [sym, len]
  ed_i,             \* encodeData: the index i of the loop over the sections
  beg,              \* encodeData: beg
  phases,           \* compress: the calls of encodeData for the current block
  freq_,            \* FreqTable: freq_[256], the pairs [first, second]
  location_,        \* FreqTable: location_[256]
  ft_calls,         \* the calls of Increase and Decrease made on the table
  ft_op,            \* the last call: "Increase", "Decrease" or "none"
  ft_key,           \* the key of the last call
  ft_value,         \* the value of the last call (64 bits)
  ft_ret,           \* what the last call of Decrease returned
  source,           \* compress: the bytes of the input file
  block_size,       \* compress: block_size
  dz_out,           \* Decompressor: m_out, the bytes written
  decompressedSize, \* Decompressor::decompress: decompressedSize
  dz_slices,        \* Decompressor::decompress: pb->slices()
  dz_i,             \* Decompressor::decompress: the index i of the slice loop
  threads,          \* Decompressor::decompress: the argument of the call
  m_decoder,        \* Decompressor::m_decoder: 0, or the decoder of a kind
  ndebug,           \* whether NDEBUG is defined, which removes the assertions
  cp_block,         \* the block as it is given to CompressCommonPairs
  cp_from,          \* CompressCommonPairs: from[0..length), and the result
  pair_freq,        \* CompressCommonPairs: pair_freq, the pairs that occur
  cp_seen,          \* FindReplaceablePairs: the pairs below current_pair
  current_pair,     \* FindReplaceablePairs: current_pair
  cp_limit,         \* FindReplaceablePairs: limit
  replaceable_pairs,\* CompressCommonPairs: replaceable_pairs
  free_symbols,     \* CompressCommonPairs: free_symbols
  escape_index,     \* CompressCommonPairs: escape_index
  cp_temp,          \* CompressCommonPairs: temp, the bytes written so far
  position,         \* CompressCommonPairs: position, the length of the header
  wr_i,             \* WriteReplacements: i
  total_size,       \* CompressCommonPairs: total_size
  seqs_,            \* SequenceHeap: seqs_, the triples [symbol, length, frequency]
  locations_,       \* SequenceHeap: locations_, the slot of (symbol, length)
  last_,            \* SequenceHeap: last_
  hp_calls,         \* the calls of DeleteMax made on the heap
  hp_max,           \* what the last call of DeleteMax returned
  lr_block,         \* CompressLongRuns: the block, as its runs [symbol, length]
  run_freq,         \* CompressLongRuns: run_freq, by (symbol, length)
  longest_runs,     \* CompressLongRuns: longest_runs
  lr_temp,          \* CompressLongRuns: temp, header bytes and then pieces
  lr_i,             \* WriteReplacements: the runs already written
  lr_last,          \* the last call of WriteRunReplacement and what it wrote
  wv_msg,           \* WaveletTree: the bytes the tree is built on
  wv_codes,         \* the code of every byte that occurs: its path in the tree
  wv_vectors,       \* the bit vector of every inner node, by its path
  wv_shape,         \* the bits that treeShape gave
  wv_in,            \* the bytes that encodeData wrote for the shape
  wv_bitsRead,      \* bits that readShape has taken from wv_in
  wv_read,          \* what readShape returned and the codes it left
  wv_out,           \* the bytes that message gave
  m_prev,           \* ProbabilityModel::m_prev of the model that is reset
  pm_used,          \* the bits given to update before resetModel
  fresh_prev,       \* ProbabilityModel::m_prev of a model just constructed
  pm_calls,         \* the calls made on both models since resetModel
  pm_probs,         \* what probabilityOfOne returned on the model reset
  fresh_probs       \* what probabilityOfOne returned on the fresh model

packVars == <<integer, packed_integer, bytes_needed, unpacked>>
rpiVars  == <<rpi_i, rpi_packed>>
wbhVars  == <<wbh_i, wbh_sum, temp>>
edVars   == <<ed_block, ed_i, beg, phases>>
encVars  == <<stats, wbhVars, m_headerPosition, m_compressedBlockLength, edVars>>
rbhVars  == <<compressed_length, sects, context_lengths>>

\* The frequency table of the preprocessors, and the drivers of a whole file.
freqVars == <<freq_, location_, ft_calls, ft_op, ft_key, ft_value, ft_ret>>
dzVars   == <<source, block_size, dz_out, decompressedSize, dz_slices, dz_i,
              threads, m_decoder>>
ftCallVars == <<ft_calls, ft_op, ft_key, ft_value, ft_ret>>

\* The preprocessors of a block.
cpVars   == <<cp_block, cp_from, pair_freq, cp_seen, current_pair, cp_limit, replaceable_pairs, free_symbols,
             escape_index, cp_temp, position, wr_i, total_size>>
hpVars   == <<seqs_, locations_, last_, hp_calls, hp_max>>
lrVars   == <<lr_block, run_freq, longest_runs, lr_temp, lr_i, lr_last>>
wvVars   == <<wv_msg, wv_codes, wv_vectors, wv_shape, wv_in, wv_bitsRead,
              wv_read, wv_out>>
pmVars   == <<m_prev, pm_used, fresh_prev, pm_calls, pm_probs, fresh_probs>>
afterWvVars == <<pmVars, ndebug>>
afterLrVars == <<wvVars, afterWvVars>>
afterHpVars == <<lrVars, afterLrVars>>
afterCpVars == <<hpVars, afterHpVars>>
prepVars == <<cpVars, afterCpVars>>
toolVars == <<freqVars, dzVars, prepVars>>

\* The state of one Huffman-coded block, on the encoder's and the decoder's side.
blockVars == <<encVars, rbhVars>>

\* The trailer of a block, on both sides.
trailerVars == <<LFpowers, wt_i, wt_s, bitsLeft, wt_bytes, rd_LFpowers>>

\* The Huffman shape of a section, on both sides.
shapeVars == <<clen, d_clen, ds_symbols, ds_maxLen, alphabet, ds_i, bitsRead>>

\* The runs of a section in encodeData, and in decodeBlock.
dataVars == <<runseq, runlen, code, buffer, bitsInBuffer, enc_k>>
decVars  == <<d_nRuns, d_code, len0, code0, d_buffer, d_bits, zeroCount,
              d_lookup, d_straddle,
              d_runseq, d_runlen>>
runVars  == <<dataVars, decVars>>

\* The payload of a section.
payloadVars == <<shapeVars, runVars>>

\* The streams and the state of the coders.
coderVars == <<m_in, in_pos, in_bit, m_out, packVars, rpiVars, blockVars,
               trailerVars, payloadVars>>

vars == <<toolVars, pc, m_in, in_pos, in_bit, m_out, packVars, rpiVars, blockVars,
          trailerVars, payloadVars>>

-----------------------------------------------------------------------------
(* Bounds of the model. *)

\* PackInteger inputs: values with at most this many bits set (or cleared).
MaxSetBits == 2
\* readPackedInteger: raw streams hold at most this many continuation bytes.
MaxCont == 10
\* readPackedInteger: reads past the end of the stream are cut off here.
MaxReads == 12
\* writeBlockHeader: the statistics vectors differ in this many leading entries.
MaxStatsPrefix == 2

-----------------------------------------------------------------------------
(* Machine arithmetic. *)

RECURSIVE Pow2(_)
Pow2(k) == IF k = 0 THEN 1 ELSE 2 * Pow2(k - 1)

U64Zero == {}

\* A value below 2^31 as 64 bits.
U64(n) == {k \in 0..30 : (n \div Pow2(k)) % 2 = 1}

\* The value with exactly the bits of S set.
U64OfBits(S) == S \cap (0..63)

U64IsZero(x) == x = {}

U64Or(x, y) == x \cup y

U64And(x, y) == x \cap y

\* x << s for 0 <= s < 64: the bits pushed past bit 63 are lost.
U64Shl(x, s) == {k + s : k \in {j \in x : j + s <= 63}}

\* x >> s for 0 <= s < 64.
U64Shr(x, s) == {k - s : k \in {j \in x : j >= s}}

U64Bit(x, k) == IF k \in x THEN 1 ELSE 0

\* static_cast<byte>(x & 0xFF).
U64LowByte(x) ==
  U64Bit(x, 0) + 2 * U64Bit(x, 1) + 4 * U64Bit(x, 2) + 8 * U64Bit(x, 3)
    + 16 * U64Bit(x, 4) + 32 * U64Bit(x, 5) + 64 * U64Bit(x, 6)
    + 128 * U64Bit(x, 7)

\* The value of the low 31 bits of x.
RECURSIVE U64ValFrom(_, _)
U64ValFrom(x, k) ==
  IF k > 30 THEN 0 ELSE U64Bit(x, k) + 2 * U64ValFrom(x, k + 1)

U64Val(x) == U64ValFrom(x, 0)

Byte == 0..255

\* Bit 7 of a byte.
HighBit(b) == b \div 128

-----------------------------------------------------------------------------
(* PackInteger / UnpackInteger. *)

kEightBit == U64(128)

\* PackLoop with the continuation bit decided before the shift: every byte
\* written, the last one too, gets bit 7.
RECURSIVE PackLoopContinuesAlways(_, _, _)
PackLoopContinuesAlways(value, result, i) ==
  IF U64IsZero(value)
    THEN [result |-> result, bytes_needed |-> i, assert_ok |-> TRUE]
  ELSE IF i >= 8
    THEN [result |-> result, bytes_needed |-> i, assert_ok |-> FALSE]
  ELSE
    LET r1 == U64Or(result, U64Shl(U64And(value, U64(127)), i * 8))
        r2 == U64Or(r1, U64Shl(U64(128), i * 8))
    IN PackLoopContinuesAlways(U64Shr(value, 7), r2, i + 1)

\* The loop of PackInteger from iteration i on. assert_ok is FALSE when
\* assert(i < 8) fails.
RECURSIVE PackLoop(_, _, _)
PackLoop(value, result, i) ==
  IF U64IsZero(value)
    THEN [result |-> result, bytes_needed |-> i, assert_ok |-> TRUE]
  ELSE IF i >= 8
    THEN [result |-> result, bytes_needed |-> i, assert_ok |-> FALSE]
  ELSE
    LET r1   == U64Or(result, U64Shl(U64And(value, U64(127)), i * 8))
        rest == U64Shr(value, 7)
        r2   == IF U64IsZero(rest) THEN r1
                ELSE U64Or(r1, U64Shl(kEightBit, i * 8))
    IN PackLoop(rest, r2, i + 1)

PackInteger(value) == PackLoop(value, U64Zero, 0)

\* The do-while loop of UnpackInteger. assert_ok is FALSE when
\* assert(bits_handled <= 56) fails.
RECURSIVE UnpackLoop(_, _, _)
UnpackLoop(packed, result, bits_handled) ==
  LET bits_left == 7 \in packed
      r1        == U64Or(result, U64Shl(U64And(packed, U64(127)), bits_handled))
      handled   == bits_handled + 7
  IN IF handled > 56
       THEN [result |-> r1, assert_ok |-> FALSE]
     ELSE IF bits_left
       THEN UnpackLoop(U64Shr(packed, 8), r1, handled)
     ELSE [result |-> r1, assert_ok |-> TRUE]

UnpackInteger(packed) == UnpackLoop(packed, U64Zero, 0)

\* The bytes writePackedInteger writes: the low byte first, until the rest is 0.
RECURSIVE PackedBytes(_)
PackedBytes(packed) ==
  LET rest == U64Shr(packed, 8)
  IN <<U64LowByte(packed)>> \o (IF U64IsZero(rest) THEN <<>> ELSE PackedBytes(rest))

\* InStream::ReadByte: static_cast<byte>(from_->get()); get() is EOF (-1) at the
\* end of the file, which the cast turns into 0xFF.
ReadByte(stream, pos) == IF pos < Len(stream) THEN stream[pos + 1] ELSE 255

kEndSymbol == U64OfBits({63})

\* What readPackedInteger returns for the accumulated value.
ReadPackedResult(packed) ==
  IF packed = U64(128) THEN kEndSymbol ELSE packed

-----------------------------------------------------------------------------
(* The packed-integer codec as a state machine: an integer is packed, then    *)
(* either unpacked at once or written, read back and unpacked; or the reader *)
(* is run on a raw stream that no writer produced.                            *)

\* Values below 2^56 with few bits set, or with few bits cleared.
\* The bit positions at the edges of the 7-bit groups of a value below 2^56.
GroupEdges == {0, 6, 7, 13, 14, 20, 21, 27, 28, 34, 35, 41, 42, 48, 49, 55}

RECURSIVE SetsUpTo(_, _)
SetsUpTo(U, k) ==
  IF k = 0 THEN {{}}
  ELSE LET P == SetsUpTo(U, k - 1) IN P \cup {S \cup {b} : S \in P, b \in U}

PackInputs ==
  LET Small == SetsUpTo(GroupEdges, MaxSetBits)
  IN {U64OfBits(S) : S \in Small} \cup {U64OfBits((0..55) \ S) : S \in Small}

\* Raw streams: some continuation bytes, then a final byte or the end of file.
RawStreams ==
  {[k \in 1..n |-> c] \o t :
     n \in 0..MaxCont, c \in {128, 129, 255}, t \in {<<>>, <<0>>, <<1>>, <<127>>}}

WbhIdle ==
  /\ wbh_i = 0
  /\ wbh_sum = 0
  /\ temp = <<>>

FreqIdle ==
  /\ freq_ = <<>>
  /\ location_ = <<>>
  /\ ft_calls = 0
  /\ ft_op = "none"
  /\ ft_key = 0
  /\ ft_value = <<0, 0, 0, 0>>
  /\ ft_ret = TRUE

DzIdle ==
  /\ source = <<>>
  /\ block_size = 0
  /\ dz_out = <<>>
  /\ decompressedSize = 0
  /\ dz_slices = 0
  /\ dz_i = 0
  /\ threads = 1
  /\ m_decoder = 0

CpIdle ==
  /\ cp_block = <<>>
  /\ cp_from = <<>>
  /\ pair_freq = <<>>
  /\ cp_seen = {}
  /\ current_pair = 0
  /\ cp_limit = 0
  /\ replaceable_pairs = <<>>
  /\ free_symbols = 0
  /\ escape_index = 0
  /\ cp_temp = <<>>
  /\ position = 0
  /\ wr_i = 0
  /\ total_size = 0

HpIdle ==
  /\ seqs_ = <<>>
  /\ locations_ = <<>>
  /\ last_ = 0
  /\ hp_calls = 0
  /\ hp_max = <<>>

LrIdle ==
  /\ lr_block = <<>>
  /\ run_freq = <<>>
  /\ longest_runs = <<>>
  /\ lr_temp = <<>>
  /\ lr_i = 0
  /\ lr_last = <<>>

WvIdle ==
  /\ wv_msg = <<>>
  /\ wv_codes = <<>>
  /\ wv_vectors = <<>>
  /\ wv_shape = <<>>
  /\ wv_in = <<>>
  /\ wv_bitsRead = 0
  /\ wv_read = <<>>
  /\ wv_out = <<>>

PmIdle ==
  /\ m_prev = TRUE
  /\ pm_used = <<>>
  /\ fresh_prev = TRUE
  /\ pm_calls = <<>>
  /\ pm_probs = <<>>
  /\ fresh_probs = <<>>

AfterLrIdle == WvIdle /\ PmIdle

AfterHpIdle == LrIdle /\ AfterLrIdle

AfterCpIdle == HpIdle /\ AfterHpIdle

PrepIdle == ndebug = FALSE /\ CpIdle /\ AfterCpIdle

ToolsIdle == FreqIdle /\ DzIdle /\ PrepIdle

EdIdle ==
  /\ ed_block = <<>>
  /\ ed_i = 0
  /\ beg = 0
  /\ phases = 0

EncIdle ==
  /\ stats = <<>>
  /\ EdIdle
  /\ WbhIdle
  /\ m_headerPosition = 0
  /\ m_compressedBlockLength = 0

RbhIdle ==
  /\ compressed_length = 0
  /\ sects = 0
  /\ context_lengths = <<>>

PackIdle ==
  /\ integer = U64Zero
  /\ packed_integer = U64Zero
  /\ bytes_needed = 0
  /\ unpacked = U64Zero

RpiIdle ==
  /\ rpi_i = 0
  /\ rpi_packed = U64Zero

NoSymbols == [k \in 0..255 |-> 0]

ShapeIdle ==
  /\ clen = NoSymbols
  /\ d_clen = NoSymbols
  /\ ds_symbols = 0
  /\ ds_maxLen = 0
  /\ alphabet = <<>>
  /\ ds_i = 0
  /\ bitsRead = 0

DataIdle ==
  /\ runseq = <<>>
  /\ runlen = <<>>
  /\ code = NoSymbols
  /\ buffer = U64Zero
  /\ bitsInBuffer = 0
  /\ enc_k = 0

DecIdle ==
  /\ d_nRuns = 0
  /\ d_code = NoSymbols
  /\ len0 = 0
  /\ code0 = 0
  /\ d_buffer = 0
  /\ d_bits = 0
  /\ zeroCount = 0
  /\ d_lookup = 0
  /\ d_straddle = [b |-> 0, nextb |-> 0]
  /\ d_runseq = <<>>
  /\ d_runlen = <<>>

RunsIdle == DataIdle /\ DecIdle

PayloadIdle == ShapeIdle /\ RunsIdle

TrailerIdle ==
  /\ LFpowers = <<>>
  /\ wt_i = 0
  /\ wt_s = 0
  /\ bitsLeft = 0
  /\ wt_bytes = 0
  /\ rd_LFpowers = <<>>

PackedInit ==
  /\ ToolsIdle
  /\ in_bit = 0
  /\ PayloadIdle
  /\ TrailerIdle
  /\ EncIdle
  /\ RbhIdle
  /\ RpiIdle
  /\ m_out = <<>>
  /\ in_pos = 0
  /\ packed_integer = U64Zero
  /\ bytes_needed = 0
  /\ unpacked = U64Zero
  /\ \/ pc = "pack" /\ integer \in PackInputs /\ m_in = <<>>
     \/ pc = "rawread" /\ integer = U64Zero /\ m_in \in RawStreams

DoPackInteger ==
  /\ pc = "pack"
  /\ PackInteger(integer).assert_ok
  /\ packed_integer' = PackInteger(integer).result
  /\ bytes_needed' = PackInteger(integer).bytes_needed
  /\ pc' = "packed"
  /\ UNCHANGED <<toolVars, payloadVars, trailerVars, in_bit, m_in, in_pos, m_out, integer, unpacked, rpiVars, blockVars>>

DoUnpackInteger ==
  /\ pc \in {"packed", "readdone"}
  /\ LET arg == IF pc = "packed" THEN packed_integer ELSE rpi_packed
     IN /\ UnpackInteger(arg).assert_ok
        /\ unpacked' = UnpackInteger(arg).result
  /\ pc' = IF pc = "packed" THEN "unpacked" ELSE "decoded"
  /\ UNCHANGED <<toolVars, payloadVars, trailerVars, in_bit, m_in, in_pos, m_out, integer, packed_integer, bytes_needed,
                 rpiVars, blockVars>>

DoWritePackedInteger ==
  /\ pc = "packed"
  /\ m_out' = m_out \o PackedBytes(packed_integer)
  /\ pc' = "written"
  /\ UNCHANGED <<toolVars, payloadVars, trailerVars, in_bit, m_in, in_pos, packVars, rpiVars, blockVars>>

\* Where the decoder starts on the bytes an encoder routine has written.
DecoderEntry(at) ==
  CASE at = "written" -> "read"
    [] at = "header_written" -> "rbh"
    [] at = "trailer_written" -> "rt"
    [] at = "section_written" -> "nruns_int"

\* The decoder is constructed on the file the encoder wrote.
OpenWritten ==
  /\ pc \in {"written", "header_written", "trailer_written", "section_written"}
  /\ m_in' = m_out
  /\ in_pos' = 0
  /\ in_bit' = 0
  /\ rpi_i' = 0
  /\ rpi_packed' = U64Zero
  /\ pc' = DecoderEntry(pc)
  /\ UNCHANGED <<toolVars, payloadVars, trailerVars, m_out, packVars, blockVars>>

\* read << i*8. A shift by 64 or more is undefined: the hardware shifts by the
\* count modulo 64, a folded constant gives 0.
ShiftedRead(read, i) ==
  IF i * 8 < 64 THEN {U64Shl(U64(read), i * 8)}
  ELSE {U64Shl(U64(read), (i * 8) % 64), U64Zero}

\* One iteration of the loop of readPackedInteger, and its return when the
\* byte read has bit 7 clear.
\* Where readPackedInteger returns to.
RpiReturn(at) ==
  CASE at = "read" -> "readdone"
    [] at = "rawread" -> "rawdone"
    [] at = "rbh_int" -> "rbh_got"
    [] at = "nruns_int" -> "nruns_got"

ReadPackedStep ==
  /\ pc \in {"read", "rawread", "rbh_int", "nruns_int"}
  /\ rpi_i < MaxReads
  /\ LET read      == ReadByte(m_in, in_pos)
         bits_left == HighBit(read) = 1
     IN /\ \E sh \in ShiftedRead(read, rpi_i) :
             rpi_packed' = IF bits_left THEN U64Or(rpi_packed, sh)
                           ELSE ReadPackedResult(U64Or(rpi_packed, sh))
        /\ pc' = IF bits_left THEN pc ELSE RpiReturn(pc)
  /\ in_pos' = in_pos + 1
  /\ rpi_i' = rpi_i + 1
  /\ UNCHANGED <<toolVars, payloadVars, trailerVars, in_bit, m_in, m_out, packVars, blockVars>>

PackedNext ==
  \/ DoPackInteger
  \/ DoUnpackInteger
  \/ DoWritePackedInteger
  \/ OpenWritten
  \/ ReadPackedStep

SpecPacked == PackedInit /\ [][PackedNext]_vars

\* C8: for every n below 2^56, UnpackInteger(PackInteger(n)) = n; and for n > 0
\* the packed bytes end with a byte whose bit 7 is clear, are as many as
\* bytes_needed says, and are never the lone byte 0x80, so that
\* readPackedInteger on them does not return the reserved end symbol.
C8_PackRoundTrip ==
  /\ pc = "unpacked" => unpacked = integer
  /\ (pc \in {"packed", "unpacked", "written"} /\ ~U64IsZero(integer)) =>
       /\ bytes_needed \in 1..8
       /\ (8 * bytes_needed - 1) \notin packed_integer
       /\ Len(PackedBytes(packed_integer)) = bytes_needed
       /\ PackedBytes(packed_integer) # <<128>>
  /\ (pc = "readdone" /\ ~U64IsZero(integer)) => rpi_packed # kEndSymbol

\* An eight-byte value has gone through PackInteger and UnpackInteger.
C8_Witness ==
  pc = "unpacked" /\ bytes_needed = 8 /\ unpacked = integer /\ 55 \in integer

\* C9: once readPackedInteger has read more than 8 bytes without meeting a
\* byte whose bit 7 is clear, it has failed with MalformedStream (it neither
\* reads on nor returns a value).
C9_OverlongIsMalformed ==
  rpi_i > 8 => pc = "MalformedStream"

-----------------------------------------------------------------------------
(* The header of one block: HuffmanEncoder::writeBlockHeader and             *)
(* HuffmanDecoder::readBlockHeader.                                           *)

\* A section is closed as soon as it holds this many bytes.
kSectionMin == 10000

\* Concatenation and sum of f[lo..hi], by halves.
RECURSIVE ConcatRange(_, _, _)
ConcatRange(f, lo, hi) ==
  IF lo > hi THEN <<>>
  ELSE IF lo = hi THEN f[lo]
  ELSE LET mid == (lo + hi) \div 2
       IN ConcatRange(f, lo, mid) \o ConcatRange(f, mid + 1, hi)

RECURSIVE SumRange(_, _, _)
SumRange(f, lo, hi) ==
  IF lo > hi THEN 0
  ELSE IF lo = hi THEN f[lo]
  ELSE LET mid == (lo + hi) \div 2
       IN SumRange(f, lo, mid) + SumRange(f, mid + 1, hi)

\* byte len: 0 when there are 256 sections, else the count cut to a byte.
SectionCountByte(n) == IF n = 256 THEN 0 ELSE n % 256

\* The packed section lengths as writePackedInteger writes them, and their
\* bytes_needed summed.
SectionBytes(s) ==
  ConcatRange([i \in 1..Len(s) |-> PackedBytes(PackInteger(U64(s[i])).result)],
              1, Len(s))

\* One byte counted for each section length.
SectionBytesNeededOneEach(s) == Len(s)

SectionBytesNeeded(s) ==
  SumRange([i \in 1..Len(s) |-> PackInteger(U64(s[i])).bytes_needed], 1, Len(s))

\* A 48-bit field: six bytes, the most significant first.
Bytes48(x) == [k \in 1..6 |-> U64LowByte(U64Shr(x, 8 * (6 - k)))]

Read48bits(stream, pos) ==
  UNION {U64Shl(U64(ReadByte(stream, pos + k - 1)), 8 * (6 - k)) : k \in 1..6}

\* writeBlockHeader up to its section loop: the position is remembered and
\* the six placeholder bytes are written.
WriteBlockHeaderBegin ==
  /\ pc = "header"
  /\ m_headerPosition' = Len(m_out)
  /\ m_out' = m_out \o <<0, 0, 0, 0, 0, 0>>
  /\ wbh_i' = 0
  /\ wbh_sum' = 0
  /\ temp' = <<>>
  /\ pc' = "wbh_loop"
  /\ UNCHANGED <<toolVars, payloadVars, trailerVars, in_bit, m_in, in_pos, packVars, rpiVars, rbhVars, stats,
                 m_compressedBlockLength, edVars>>

\* One iteration of the loop that deduces the sections.
WriteBlockHeaderSection ==
  /\ pc = "wbh_loop"
  /\ wbh_i < Len(stats)
  /\ LET sum == wbh_sum + stats[wbh_i + 1]
     IN IF sum >= kSectionMin
          THEN temp' = Append(temp, sum) /\ wbh_sum' = 0
          ELSE temp' = temp /\ wbh_sum' = sum
  /\ wbh_i' = wbh_i + 1
  /\ UNCHANGED <<toolVars, payloadVars, trailerVars, in_bit, pc, m_in, in_pos, m_out, packVars, rpiVars, rbhVars, stats,
                 m_headerPosition, edVars, m_compressedBlockLength>>

\* temp had the remainder been pushed as a section of its own.
PushRemainder(t, sum) ==
  IF sum = 0 THEN t ELSE Append(t, sum)

\* temp after the remainder is folded into the last section.
FoldRemainder(t, sum) ==
  IF sum = 0 THEN t
  ELSE IF Len(t) > 0 THEN [t EXCEPT ![Len(t)] = @ + sum]
  ELSE <<sum>>

\* The rest of writeBlockHeader: the remainder, the copy into *stats, the
\* section count and the packed section lengths.
WriteBlockHeaderEnd ==
  /\ pc = "wbh_loop"
  /\ wbh_i = Len(stats)
  /\ LET t == FoldRemainder(temp, wbh_sum)
     IN /\ Len(t) <= 256
        /\ temp' = t
        /\ stats' = t
        /\ m_out' = m_out \o <<SectionCountByte(Len(t))>> \o SectionBytes(t)
        /\ m_compressedBlockLength' = 1 + SectionBytesNeeded(t)
  /\ pc' = "header_written"
  /\ UNCHANGED <<toolVars, payloadVars, trailerVars, in_bit, m_in, in_pos, packVars, rpiVars, rbhVars, wbh_i, wbh_sum,
                 m_headerPosition, edVars>>

\* readBlockHeader up to its loop: the 48-bit length and the section count.
ReadBlockHeaderStart ==
  /\ pc = "rbh"
  /\ compressed_length' = Read48bits(m_in, in_pos)
  /\ LET sections == ReadByte(m_in, in_pos + 6)
     IN sects' = IF sections = 0 THEN 256 ELSE sections
  /\ in_pos' = in_pos + 7
  /\ context_lengths' = <<>>
  /\ rpi_i' = 0
  /\ rpi_packed' = U64Zero
  /\ pc' = "rbh_int"
  /\ UNCHANGED <<toolVars, payloadVars, trailerVars, in_bit, m_in, m_out, packVars, encVars>>

\* stats->push_back(utils::unpackInteger(value)), and the loop's test.
ReadBlockHeaderPush ==
  /\ pc = "rbh_got"
  /\ UnpackInteger(rpi_packed).assert_ok
  /\ context_lengths' = Append(context_lengths, UnpackInteger(rpi_packed).result)
  /\ pc' = IF Len(context_lengths) + 1 < sects THEN "rbh_int" ELSE "rbh_done"
  /\ rpi_i' = 0
  /\ rpi_packed' = U64Zero
  /\ UNCHANGED <<toolVars, payloadVars, trailerVars, in_bit, m_in, in_pos, m_out, packVars, encVars, compressed_length, sects>>

\* Statistics of 256 contexts: the leading entries vary, the others are equal.
ProbeCounts == {0, 1, 9999, 10000, 2100000}

StatsInputs ==
  {[i \in 1..256 |-> IF i <= MaxStatsPrefix THEN lead[i] ELSE fill] :
     lead \in [1..MaxStatsPrefix -> ProbeCounts], fill \in {0, 1, 10000}}

HeaderInit ==
  /\ ToolsIdle
  /\ in_bit = 0
  /\ PayloadIdle
  /\ TrailerIdle
  /\ pc = "header"
  /\ stats \in StatsInputs
  /\ WbhIdle
  /\ EdIdle
  /\ m_headerPosition = 0
  /\ m_compressedBlockLength = 0
  /\ m_in = <<>>
  /\ in_pos = 0
  /\ m_out = <<>>
  /\ PackIdle
  /\ RpiIdle
  /\ RbhIdle

HeaderNext ==
  \/ WriteBlockHeaderBegin
  \/ WriteBlockHeaderSection
  \/ WriteBlockHeaderEnd
  \/ OpenWritten
  \/ ReadBlockHeaderStart
  \/ ReadPackedStep
  \/ ReadBlockHeaderPush

SpecHeader == HeaderInit /\ [][HeaderNext]_vars

\* The section lengths as readBlockHeader returns them.
StatsAsRead == [i \in 1..Len(stats) |-> U64(stats[i])]

\* C4: readBlockHeader on the bytes writeBlockHeader wrote expects as many
\* sections as the encoder left in stats, and returns their lengths in order.
C4_HeaderRoundTrip ==
  /\ pc \in {"rbh_int", "rbh_got", "rbh_done"} => sects = Len(stats)
  /\ pc = "rbh_done" => context_lengths = StatsAsRead

\* The same for statistics that are not all zero.
C4_HeaderRoundTripNonEmpty ==
  stats # <<>> => C4_HeaderRoundTrip

C4_Witness256 ==
  pc = "rbh_done" /\ Len(stats) = 256 /\ context_lengths = StatsAsRead

\* C18: the sections that writeBlockHeader leaves in stats add up to the
\* total of the statistics it was given, none of them is 0, each is at least
\* kSectionMin when the total is, a total below kSectionMin that is not 0
\* gives the one section of that total, and 256 statistics give at most 256
\* sections. The statistics count the bytes of one block, so their total is
\* below 2^32.
C18_SectionsOfStatistics ==
  [][pc = "wbh_loop" /\ pc' = "header_written" =>
       /\ SumRange(stats', 1, Len(stats')) = SumRange(stats, 1, Len(stats))
       /\ \A i \in 1..Len(stats') : stats'[i] > 0
       /\ SumRange(stats, 1, Len(stats)) >= kSectionMin =>
            \A i \in 1..Len(stats') : stats'[i] >= kSectionMin
       /\ SumRange(stats, 1, Len(stats)) \in 1..(kSectionMin - 1) =>
            stats' = <<SumRange(stats, 1, Len(stats))>>
       /\ Len(stats) = 256 => Len(stats') <= 256]_vars

\* Sections have been left of which the last holds a remainder.
C18_Witness ==
  /\ pc = "header_written"
  /\ Len(stats) >= 2
  /\ wbh_sum > 0
  /\ stats[Len(stats)] > kSectionMin

\* One section has been left for a total below kSectionMin.
C18_WitnessOne ==
  /\ pc = "header_written"
  /\ Len(stats) = 1
  /\ stats[1] < kSectionMin

-----------------------------------------------------------------------------
(* The trailer of a block: HuffmanEncoder::writeTrailer and the trailer     *)
(* parse at the end of HuffmanDecoder::decodeBlock.                         *)

\* Longest list of LF powers whose values are all enumerated.
MaxPow == 2

\* Bits of one LF power.
kPowBits == 31

\* (v >> j) & 0x1 of a 31-bit position.
PowerBitLowest(v, j) == v % 2

PowerBit(v, j) == (v \div Pow2(j)) % 2

\* The inner loop of writeTrailer from j down to 0, on the record
\* [s, bitsLeft, bytes, out].
RECURSIVE WritePowerBits(_, _, _)
WritePowerBits(st, v, j) ==
  IF j < 0 THEN st
  ELSE LET s1 == ((st.s * 2) % 256) + PowerBit(v, j)
       IN IF st.bitsLeft - 1 = 0
            THEN WritePowerBits([s |-> s1, bitsLeft |-> 8,
                                 bytes |-> st.bytes + 1,
                                 out |-> Append(st.out, s1)], v, j - 1)
            ELSE WritePowerBits([s |-> s1, bitsLeft |-> st.bitsLeft - 1,
                                 bytes |-> st.bytes, out |-> st.out], v, j - 1)

\* writeTrailer up to its loop: the count byte.
WriteTrailerBegin ==
  /\ pc = "trailer"
  /\ wt_bytes' = 1
  /\ wt_s' = (Len(LFpowers) - 1) % 256
  /\ m_out' = Append(m_out, (Len(LFpowers) - 1) % 256)
  /\ bitsLeft' = 8
  /\ wt_i' = 0
  /\ pc' = "wt_loop"
  /\ UNCHANGED <<toolVars, payloadVars, m_in, in_pos, in_bit, packVars, rpiVars, blockVars, LFpowers,
                 rd_LFpowers>>

\* One iteration of the outer loop of writeTrailer: the 31 bits of one power.
WriteTrailerPower ==
  /\ pc = "wt_loop"
  /\ wt_i < Len(LFpowers)
  /\ LET st == WritePowerBits([s |-> wt_s, bitsLeft |-> bitsLeft,
                               bytes |-> wt_bytes, out |-> <<>>],
                              LFpowers[wt_i + 1], kPowBits - 1)
     IN /\ wt_s' = st.s
        /\ bitsLeft' = st.bitsLeft
        /\ wt_bytes' = st.bytes
        /\ m_out' = m_out \o st.out
  /\ wt_i' = wt_i + 1
  /\ UNCHANGED <<toolVars, payloadVars, pc, m_in, in_pos, in_bit, packVars, rpiVars, blockVars,
                 LFpowers, rd_LFpowers>>

\* The end of writeTrailer: the last, partly filled byte.
WriteTrailerEnd ==
  /\ pc = "wt_loop"
  /\ wt_i = Len(LFpowers)
  /\ IF bitsLeft < 8
       THEN /\ m_out' = Append(m_out, (wt_s * Pow2(bitsLeft)) % 256)
            /\ wt_bytes' = wt_bytes + 1
       ELSE UNCHANGED <<payloadVars, m_out, wt_bytes>>
  /\ pc' = "trailer_written"
  /\ UNCHANGED <<toolVars, payloadVars, m_in, in_pos, in_bit, packVars, rpiVars, blockVars, LFpowers,
                 wt_i, wt_s, bitsLeft, rd_LFpowers>>

\* RawInStream::readBit at bit number p of the stream, most significant bit
\* of a byte first.
ReadBitAt(stream, p) ==
  (ReadByte(stream, p \div 8) \div Pow2(7 - (p % 8))) % 2

\* pos after n more bits are read from bit number p on.
RECURSIVE ReadBits(_, _, _, _)
ReadBits(stream, p, n, pos) ==
  IF n = 0 THEN pos
  ELSE ReadBits(stream, p + 1, n - 1, pos * 2 + ReadBitAt(stream, p))

\* RawInStream::flushBuffer: the byte position after the rest of a partly
\* read byte is dropped.
FlushedPos(pos, bit) == IF bit = 0 THEN pos ELSE pos + 1

\* The trailer parse: the count byte.
ReadTrailerBegin ==
  /\ pc = "rt"
  /\ rd_LFpowers' = [i \in 1..(ReadByte(m_in, in_pos) + 1) |-> 0]
  /\ in_pos' = in_pos + 1
  /\ wt_i' = 0
  /\ pc' = "rt_loop"
  /\ UNCHANGED <<toolVars, payloadVars, m_in, in_bit, m_out, packVars, rpiVars, blockVars, LFpowers,
                 wt_s, bitsLeft, wt_bytes>>

\* The trailer parse: one position of 31 bits.
ReadTrailerPower ==
  /\ pc = "rt_loop"
  /\ wt_i < Len(rd_LFpowers)
  /\ LET p == in_pos * 8 + in_bit
     IN /\ rd_LFpowers' = [rd_LFpowers EXCEPT
                             ![wt_i + 1] = ReadBits(m_in, p, kPowBits, 0)]
        /\ in_pos' = (p + kPowBits) \div 8
        /\ in_bit' = (p + kPowBits) % 8
  /\ wt_i' = wt_i + 1
  /\ UNCHANGED <<toolVars, payloadVars, pc, m_in, m_out, packVars, rpiVars, blockVars, LFpowers,
                 wt_s, bitsLeft, wt_bytes>>

\* The trailer parse: flushBuffer after the last position.
ReadTrailerEnd ==
  /\ pc = "rt_loop"
  /\ wt_i = Len(rd_LFpowers)
  /\ in_pos' = FlushedPos(in_pos, in_bit)
  /\ in_bit' = 0
  /\ pc' = "rt_done"
  /\ UNCHANGED <<toolVars, payloadVars, m_in, m_out, packVars, rpiVars, blockVars, trailerVars>>

\* Values of a 31-bit position: the ends of the range and mixed bit patterns.
ProbePowers == {0, 1, 1073741824, 2147483647, 1431655765}

\* Lists of LF powers: every list of up to MaxPow probe values, and lists of
\* 8 powers (no padding bits), 255 and 256 powers that cycle through probes.
PowerLists ==
  UNION {[1..k -> ProbePowers] : k \in 1..MaxPow}
  \cup {[i \in 1..k |-> IF i % 3 = r THEN a ELSE b] :
          k \in {8, 255, 256}, r \in 0..1, a \in ProbePowers,
          b \in {0, 2147483647}}

TrailerInit ==
  /\ ToolsIdle
  /\ pc = "trailer"
  /\ LFpowers \in PowerLists
  /\ wt_i = 0
  /\ wt_s = 0
  /\ bitsLeft = 0
  /\ wt_bytes = 0
  /\ rd_LFpowers = <<>>
  /\ m_in = <<>>
  /\ in_pos = 0
  /\ in_bit = 0
  /\ m_out = <<>>
  /\ PackIdle
  /\ RpiIdle
  /\ EncIdle
  /\ RbhIdle
  /\ PayloadIdle

TrailerNext ==
  \/ WriteTrailerBegin
  \/ WriteTrailerPower
  \/ WriteTrailerEnd
  \/ OpenWritten
  \/ ReadTrailerBegin
  \/ ReadTrailerPower
  \/ ReadTrailerEnd

SpecTrailer == TrailerInit /\ [][TrailerNext]_vars

\* Bit number p of the trailer format: the count byte k-1, then 31 bits of
\* each power from bit 30 down, then zeros up to the byte boundary.
TrailerFormatBit(p) ==
  IF p < 8 THEN ((Len(LFpowers) - 1) \div Pow2(7 - p)) % 2
  ELSE LET q == p - 8
       IN IF q >= kPowBits * Len(LFpowers) THEN 0
          ELSE (LFpowers[(q \div kPowBits) + 1]
                  \div Pow2(kPowBits - 1 - (q % kPowBits))) % 2

TrailerFormat ==
  [b \in 1..(1 + (kPowBits * Len(LFpowers) + 7) \div 8) |->
     TrailerFormatBit(8 * (b - 1)) * 128 + TrailerFormatBit(8 * (b - 1) + 1) * 64
     + TrailerFormatBit(8 * (b - 1) + 2) * 32 + TrailerFormatBit(8 * (b - 1) + 3) * 16
     + TrailerFormatBit(8 * (b - 1) + 4) * 8 + TrailerFormatBit(8 * (b - 1) + 5) * 4
     + TrailerFormatBit(8 * (b - 1) + 6) * 2 + TrailerFormatBit(8 * (b - 1) + 7)]

\* C5: for k LF powers (1 <= k <= 256, each below 2^31) writeTrailer writes
\* the count byte k-1 and 31 bits per power, most significant bit first,
\* padded with zeros to a byte; it returns the number of bytes it wrote; and
\* the trailer parse of decodeBlock reads back the same k values in order and
\* consumes exactly those bytes.
C5_TrailerRoundTrip ==
  /\ pc = "trailer_written" =>
       /\ m_out = TrailerFormat
       /\ wt_bytes = Len(m_out)
  /\ pc = "rt_done" =>
       /\ rd_LFpowers = LFpowers
       /\ in_pos = Len(m_in)
       /\ in_bit = 0

C5_Witness ==
  /\ pc = "rt_done"
  /\ Len(LFpowers) = 256
  /\ rd_LFpowers = LFpowers
  /\ \E i \in 1..256 : LFpowers[i] = 1431655765

-----------------------------------------------------------------------------
(* The Huffman shape of a section: HuffmanEncoder::serializeShape with the  *)
(* bytes encodeData makes of it, and HuffmanDecoder::deserializeShape.      *)

\* Largest number of used symbols for which every choice of symbols and
\* lengths is enumerated.
MaxShapeSyms == 2

\* The longest code length.
kMaxCodeLen == 47

\* utils::pushBits: the n low bits of value, most significant first.
PushBits(value, n) == [k \in 1..n |-> (value \div Pow2(n - k)) % 2]

\* utils::pushBits of a 64-bit value.
PushBitsU64(x, n) == [k \in 1..n |-> IF (n - k) \in x THEN 1 ELSE 0]

\* utils::unaryCode: n - 1 zeros and a one.
UnaryCode(n) == [k \in 1..n |-> IF k = n THEN 1 ELSE 0]

\* The number of bits that tell r values apart.
CeilLog2(r) == CHOOSE w \in 0..8 : Pow2(w) >= r /\ (w = 0 \/ Pow2(w - 1) < r)

\* utils::binaryInterpolativeCode of list[b..e], whose values lie in lo..hi:
\* the median as its offset in the range, then the two halves.
RECURSIVE BinaryInterpolativeCode(_, _, _, _, _)
BinaryInterpolativeCode(list, b, e, lo, hi) ==
  IF b > e THEN <<>>
  ELSE LET m == (b + e) \div 2
       IN PushBits(list[m] - lo, CeilLog2(hi - lo + 1))
          \o BinaryInterpolativeCode(list, b, m - 1, lo, list[m] - 1)
          \o BinaryInterpolativeCode(list, m + 1, e, list[m] + 1, hi)

\* The used symbols in ascending order: the first loop of serializeShape.
UsedSymbols(cl) ==
  ConcatRange([k \in 1..256 |-> IF cl[k - 1] > 0 THEN <<k - 1>> ELSE <<>>],
              1, 256)

MaxLenOf(cl) == CHOOSE l \in 0..kMaxCodeLen : /\ \A k \in 0..255 : cl[k] <= l
                                              /\ \E k \in 0..255 : cl[k] = l

\* The number coded in unary for a symbol whose code has length len.
UnaryArgFlat(maxLen, len) == 1

UnaryArg(maxLen, len) == maxLen - len + 1

\* serializeShape after its first loop: the bits pushed to vec.
ShapeBits(cl, symbols, maxLen) ==
  LET packed == PackInteger(U64(maxLen))
  IN PushBits(symbols[Len(symbols)], 8)
     \o PushBits(Len(symbols), 8)
     \o PushBitsU64(packed.result, packed.bytes_needed * 8)
     \o BinaryInterpolativeCode(symbols, 1, Len(symbols), 0, symbols[Len(symbols)])
     \o ConcatRange([i \in 1..Len(symbols) |->
                       UnaryCode(UnaryArg(maxLen, cl[symbols[i]]))],
                    1, Len(symbols))

SerializeShape(cl) == ShapeBits(cl, UsedSymbols(cl), MaxLenOf(cl))

\* The bytes encodeData writes for a bit vector: eight bits to a byte, the
\* last byte filled up with zeros.
BitAt(vec, k) == IF k <= Len(vec) THEN vec[k] ELSE 0

BitsToBytes(vec) ==
  [b \in 1..((Len(vec) + 7) \div 8) |->
     BitAt(vec, 8 * b - 7) * 128 + BitAt(vec, 8 * b - 6) * 64
     + BitAt(vec, 8 * b - 5) * 32 + BitAt(vec, 8 * b - 4) * 16
     + BitAt(vec, 8 * b - 3) * 8 + BitAt(vec, 8 * b - 2) * 4
     + BitAt(vec, 8 * b - 1) * 2 + BitAt(vec, 8 * b)]

\* encodeData: the shape is serialized and written.
WriteShape ==
  /\ pc = "shape"
  /\ LET bytes == BitsToBytes(SerializeShape(clen))
     IN /\ m_out' = m_out \o bytes
        /\ m_compressedBlockLength' = m_compressedBlockLength + Len(bytes)
  /\ pc' = "shape_written"
  /\ UNCHANGED <<toolVars, m_in, in_pos, in_bit, packVars, rpiVars, rbhVars, stats,
                 wbhVars, m_headerPosition, edVars, trailerVars, payloadVars>>


\* The loop of deserializeShape that reads maxLen, from byte pos on with
\* shift j: [maxLen, pos] after it.
RECURSIVE ReadMaxLen(_, _, _, _)
ReadMaxLen(stream, pos, j, maxLen) ==
  LET read == ReadByte(stream, pos)
      next == maxLen + (read % 128) * Pow2(j)
  IN IF HighBit(read) = 1 /\ j < 21
       THEN ReadMaxLen(stream, pos + 1, j + 7, next)
       ELSE [maxLen |-> next, pos |-> pos + 1]

\* utils::binaryInterpolativeDecode of n values in lo..hi from bit number p
\* on: [alphabet, p] after it.
RECURSIVE BinaryInterpolativeDecode(_, _, _, _, _)
BinaryInterpolativeDecode(stream, p, n, lo, hi) ==
  IF n = 0 THEN [alphabet |-> <<>>, p |-> p]
  ELSE LET w  == CeilLog2(hi - lo + 1)
           v  == lo + ReadBits(stream, p, w, 0)
           nl == (n - 1) \div 2
           L  == BinaryInterpolativeDecode(stream, p + w, nl, lo, v - 1)
       IN IF L.p >= p
            THEN LET R == BinaryInterpolativeDecode(stream, L.p, n - 1 - nl,
                                                    v + 1, hi)
                 IN [alphabet |-> L.alphabet \o <<v>> \o R.alphabet, p |-> R.p]
            ELSE L

\* utils::unaryDecode at bit number p: the number of bits up to the first one.
UnaryDecode(stream, p) ==
  CHOOSE n \in 1..(8 * (Len(stream) + 1)) :
    /\ ReadBitAt(stream, p + n - 1) = 1
    /\ \A k \in 1..(n - 1) : ReadBitAt(stream, p + k - 1) = 0

\* deserializeShape is called on the bytes of a shape alone.
OpenShape ==
  /\ pc = "shape_written"
  /\ m_in' = m_out
  /\ in_pos' = 0
  /\ in_bit' = 0
  /\ pc' = "ds"
  /\ UNCHANGED <<toolVars, m_out, packVars, rpiVars, blockVars, trailerVars, payloadVars>>

\* deserializeShape up to its loop over the symbols.
DeserializeShapeBegin ==
  /\ pc = "ds"
  /\ LET maxSym  == ReadByte(m_in, in_pos)
         symbols == IF ReadByte(m_in, in_pos + 1) = 0 THEN 256
                    ELSE ReadByte(m_in, in_pos + 1)
         ml      == ReadMaxLen(m_in, in_pos + 2, 0, 0)
         dec     == BinaryInterpolativeDecode(m_in, 8 * ml.pos, symbols, 0, maxSym)
     IN /\ ds_symbols' = symbols
        /\ ds_maxLen' = ml.maxLen
        /\ alphabet' = dec.alphabet
        /\ bitsRead' = 16 + 8 * (ml.pos - (in_pos + 2)) + (dec.p - 8 * ml.pos)
        /\ in_pos' = dec.p \div 8
        /\ in_bit' = dec.p % 8
  /\ d_clen' = NoSymbols
  /\ ds_i' = 0
  /\ pc' = "ds_loop"
  /\ UNCHANGED <<toolVars, runVars, m_in, m_out, packVars, rpiVars, blockVars, trailerVars, clen>>

\* One iteration of the loop of deserializeShape: the length of one symbol.
DeserializeShapeSymbol ==
  /\ pc = "ds_loop"
  /\ ds_i < ds_symbols
  /\ LET p == in_pos * 8 + in_bit
         n == UnaryDecode(m_in, p)
     IN /\ bitsRead' = bitsRead + n
        /\ d_clen' = [d_clen EXCEPT ![alphabet[ds_i + 1]] = ds_maxLen - n + 1]
        /\ in_pos' = (p + n) \div 8
        /\ in_bit' = (p + n) % 8
  /\ ds_i' = ds_i + 1
  /\ UNCHANGED <<toolVars, runVars, pc, m_in, m_out, packVars, rpiVars, blockVars, trailerVars,
                 clen, ds_symbols, ds_maxLen, alphabet>>

\* The end of deserializeShape: flushBuffer.
DeserializeShapeEnd ==
  /\ pc = "ds_loop"
  /\ ds_i = ds_symbols
  /\ in_pos' = FlushedPos(in_pos, in_bit)
  /\ in_bit' = 0
  /\ pc' = "ds_done"
  /\ UNCHANGED <<toolVars, runVars, m_in, m_out, packVars, rpiVars, blockVars, trailerVars,
                 shapeVars>>

\* Symbols and code lengths the tables are made of.
ProbeSymbols == {0, 1, 127, 128, 255}
ProbeLengths == {1, 24, kMaxCodeLen}

\* A table with the lengths f on the symbols of its domain.
ClenOf(f) == [k \in 0..255 |-> IF k \in DOMAIN f THEN f[k] ELSE 0]

\* Code-length tables: every choice of up to MaxShapeSyms probe symbols with
\* probe lengths, and tables on all 256 symbols, on all but the first and on
\* all but the last.
ClenInputs ==
  {ClenOf(f) : f \in UNION {[S -> ProbeLengths] :
                              S \in SetsUpTo(ProbeSymbols, MaxShapeSyms) \ {{}}}}
  \cup {[k \in 0..255 |-> IF k < lo \/ k > hi THEN 0
                          ELSE IF k % 3 = r THEN a ELSE b] :
          lo \in 0..1, hi \in 254..255, r \in 0..1,
          a \in ProbeLengths, b \in {1, kMaxCodeLen}}

ShapeInit ==
  /\ ToolsIdle
  /\ pc = "shape"
  /\ clen \in ClenInputs
  /\ d_clen = NoSymbols
  /\ ds_symbols = 0
  /\ ds_maxLen = 0
  /\ alphabet = <<>>
  /\ ds_i = 0
  /\ bitsRead = 0
  /\ m_in = <<>>
  /\ in_pos = 0
  /\ in_bit = 0
  /\ m_out = <<>>
  /\ PackIdle
  /\ RpiIdle
  /\ EncIdle
  /\ RbhIdle
  /\ TrailerIdle
  /\ RunsIdle

ShapeNext ==
  \/ WriteShape
  \/ OpenShape
  \/ DeserializeShapeBegin
  \/ DeserializeShapeSymbol
  \/ DeserializeShapeEnd

SpecShape == ShapeInit /\ [][ShapeNext]_vars

\* C6: for every table of code lengths with a non-empty set of used symbols
\* and lengths 1..47, deserializeShape on the bytes made of serializeShape's
\* bits rebuilds the table for all 256 symbols, reads all of those bytes and
\* returns their number.
C6_ShapeRoundTrip ==
  pc = "ds_done" =>
    /\ d_clen = clen
    /\ in_pos = Len(m_in)
    /\ (bitsRead + 7) \div 8 = Len(m_in)

C6_Witness ==
  /\ pc = "ds_done"
  /\ d_clen = clen
  /\ \A k \in 0..255 : clen[k] > 0
  /\ \E k \in 0..255 : clen[k] = kMaxCodeLen
  /\ \E k \in 0..255 : clen[k] = 1

-----------------------------------------------------------------------------
(* The runs of a section: the symbol codes and the gamma codes that         *)
(* HuffmanEncoder::encodeData writes.                                       *)

\* The used symbols ordered by code length and, within a length, by symbol.
SymbolsOfLength(cl, used) ==
  [l \in 1..kMaxCodeLen |-> SelectSeq(used, LAMBDA sym : cl[sym] = l)]

CodeOrder(cl) ==
  ConcatRange(SymbolsOfLength(cl, UsedSymbols(cl)), 1, kMaxCodeLen)

\* The smallest code of length l: the code of zeros only at the greatest
\* length, and one more than the greatest code of the next length, cut by a
\* bit, at the lengths below. cnt[l] is the number of codes of length l.
RECURSIVE BaseCode(_, _)
BaseCode(cnt, l) ==
  IF l >= kMaxCodeLen THEN 0
  ELSE (BaseCode(cnt, l + 1) + cnt[l + 1]) \div 2

\* The codes of the symbols of one length, of which syms is the ascending
\* list: they count up from the last symbol to the first.
CodesOfLength(syms, base) ==
  [i \in 1..Len(syms) |-> <<syms[i], base + (Len(syms) - i)>>]

\* The table code[256] made of a list of <<symbol, code>>.
RECURSIVE CodeTable(_, _, _)
CodeTable(pairs, lo, hi) ==
  IF lo > hi THEN <<>>
  ELSE IF lo = hi THEN pairs[lo][1] :> pairs[lo][2]
  ELSE LET mid == (lo + hi) \div 2
       IN CodeTable(pairs, lo, mid) @@ CodeTable(pairs, mid + 1, hi)

CodesFrom(cl, order) ==
  LET cnt   == [l \in 1..kMaxCodeLen |-> Len(order[l])]
      pairs == ConcatRange([l \in 1..kMaxCodeLen |->
                              CodesOfLength(order[l], BaseCode(cnt, l))],
                           1, kMaxCodeLen)
  IN CodeTable(pairs, 1, Len(pairs)) @@ NoSymbols

\* utils::computeHuffmanCodes: the last symbol of the order has the code of
\* zeros only, and the codes count up towards the shorter lengths.
ComputeHuffmanCodes(cl) ==
  CodesFrom(cl, SymbolsOfLength(cl, UsedSymbols(cl)))

\* utils::logFloor.
RECURSIVE LogFloor(_)
LogFloor(n) == IF n < 2 THEN 0 ELSE 1 + LogFloor(n \div 2)

\* buffer >> bitsInBuffer. A shift by a negative count is undefined: the
\* hardware shifts by the count modulo 64, a folded constant gives 0.
BufferShr(x, n) ==
  IF n >= 0 THEN {U64Shr(x, n)} ELSE {U64Shr(x, n % 64), U64Zero}

\* The loop that makes room in the buffer for a code of len bits, on the
\* record [bits, out]: a byte is written while the code does not fit. The
\* set of the records it can end with.
RECURSIVE FlushForCode(_, _, _)
FlushForCode(buf, st, len) ==
  IF st.bits + len > 64
    THEN UNION {FlushForCode(buf, [bits |-> st.bits - 8,
                                   out  |-> Append(st.out, U64LowByte(sh))], len) :
                  sh \in BufferShr(buf, st.bits - 8)}
    ELSE {st}

\* The loop that writes the whole bytes of the buffer.
RECURSIVE FlushBytes(_, _)
FlushBytes(buf, st) ==
  IF st.bits >= 8
    THEN FlushBytes(buf, [bits |-> st.bits - 8,
                          out  |-> Append(st.out,
                                          U64LowByte(U64Shr(buf, st.bits - 8)))])
    ELSE st

\* The remaining bits of the buffer, written as one byte: the record
\* [buf, bits, out] when the buffer is flushed.
FlushBits(buf, st) ==
  IF st.bits > 0
    THEN [buf  |-> U64Shl(buf, 8 - st.bits), bits |-> st.bits,
          out  |-> Append(st.out, U64LowByte(U64Shl(buf, 8 - st.bits)))]
    ELSE [buf |-> buf, bits |-> st.bits, out |-> st.out]

FlushAll(buf, bits) ==
  FlushBits(buf, FlushBytes(buf, [bits |-> bits, out |-> <<>>]))

\* encodeData: the number of runs is stored.
WriteNRuns ==
  /\ pc = "section"
  /\ LET packed == PackInteger(U64(Len(runseq)))
     IN /\ packed.assert_ok
        /\ m_compressedBlockLength' = m_compressedBlockLength + packed.bytes_needed
        /\ m_out' = m_out \o PackedBytes(packed.result)
  /\ pc' = "shape"
  /\ UNCHANGED <<toolVars, m_in, in_pos, in_bit, packVars, rpiVars, rbhVars, stats,
                 wbhVars, m_headerPosition, edVars, trailerVars, payloadVars>>

\* encodeData: the codes are computed and the loop over the symbols begins.
EncodeSymbolsBegin ==
  /\ pc = "shape_written"
  /\ code' = ComputeHuffmanCodes(clen)
  /\ buffer' = U64Zero
  /\ bitsInBuffer' = 0
  /\ enc_k' = 0
  /\ pc' = "enc_loop"
  /\ UNCHANGED <<toolVars, m_in, in_pos, in_bit, m_out, packVars, rpiVars, blockVars,
                 trailerVars, shapeVars, runseq, runlen, decVars>>

\* One iteration of the loop over the symbols of the runs.
EncodeSymbol ==
  /\ pc = "enc_loop"
  /\ enc_k < Len(runseq)
  /\ LET c == runseq[enc_k + 1]
     IN \E st \in FlushForCode(buffer, [bits |-> bitsInBuffer, out |-> <<>>],
                               clen[c]) :
          /\ m_out' = m_out \o st.out
          /\ m_compressedBlockLength' = m_compressedBlockLength + Len(st.out)
          /\ buffer' = U64Or(U64Shl(buffer, clen[c]), U64(code[c]))
          /\ bitsInBuffer' = st.bits + clen[c]
  /\ enc_k' = enc_k + 1
  /\ UNCHANGED <<toolVars, pc, m_in, in_pos, in_bit, packVars, rpiVars, rbhVars, stats,
                 wbhVars, m_headerPosition, edVars, trailerVars, shapeVars, runseq,
                 runlen, code, decVars>>

\* The bytes and bits left in the buffer are written, and the loop over the
\* lengths of the runs begins.
EncodeSymbolsFlush ==
  /\ pc = "enc_loop"
  /\ enc_k = Len(runseq)
  /\ LET out == FlushAll(buffer, bitsInBuffer).out
     IN /\ m_out' = m_out \o out
        /\ m_compressedBlockLength' = m_compressedBlockLength + Len(out)
  /\ buffer' = U64Zero
  /\ bitsInBuffer' = 0
  /\ enc_k' = 0
  /\ pc' = "gamma_loop"
  /\ UNCHANGED <<toolVars, m_in, in_pos, in_bit, packVars, rpiVars, rbhVars, stats,
                 wbhVars, m_headerPosition, edVars, trailerVars, shapeVars, runseq,
                 runlen, code, decVars>>

\* One iteration of the loop over the lengths of the runs.
EncodeGamma ==
  /\ pc = "gamma_loop"
  /\ enc_k < Len(runseq)
  /\ LET gammaCodeLen == LogFloor(runlen[enc_k + 1]) * 2 + 1
     IN \E st \in FlushForCode(buffer, [bits |-> bitsInBuffer, out |-> <<>>],
                               gammaCodeLen) :
          /\ m_out' = m_out \o st.out
          /\ m_compressedBlockLength' = m_compressedBlockLength + Len(st.out)
          /\ buffer' = U64Or(U64Shl(buffer, gammaCodeLen), U64(runlen[enc_k + 1]))
          /\ bitsInBuffer' = st.bits + gammaCodeLen
  /\ enc_k' = enc_k + 1
  /\ UNCHANGED <<toolVars, pc, m_in, in_pos, in_bit, packVars, rpiVars, rbhVars, stats,
                 wbhVars, m_headerPosition, edVars, trailerVars, shapeVars, runseq,
                 runlen, code, decVars>>

\* The bytes and bits left in the buffer are written: the section is done.
EncodeGammaFlush ==
  /\ pc = "gamma_loop"
  /\ enc_k = Len(runseq)
  /\ LET fl == FlushAll(buffer, bitsInBuffer)
     IN /\ m_out' = m_out \o fl.out
        /\ m_compressedBlockLength' = m_compressedBlockLength + Len(fl.out)
        /\ buffer' = fl.buf
        /\ bitsInBuffer' = fl.bits
  /\ pc' = "section_written"
  /\ UNCHANGED <<toolVars, m_in, in_pos, in_bit, packVars, rpiVars, rbhVars, stats,
                 wbhVars, m_headerPosition, edVars, trailerVars, shapeVars, runseq,
                 runlen, code, enc_k, decVars>>


-----------------------------------------------------------------------------
(* The runs of a section in HuffmanDecoder::decodeBlock: the lookup tables, *)
(* the loop that decodes the symbols and the loop that reads the lengths.   *)

\* The position of the highest set bit of x > 0.
RECURSIVE HighestBit(_)
HighestBit(x) == IF x < 2 THEN 0 ELSE 1 + HighestBit(x \div 2)

\* The leading zeros counted without a look at p where k is not zero.
LeadingZerosOfByte(p, k) ==
  IF k % 256 = 0 THEN p ELSE 8 - HighestBit(k % 256) - 1

\* leadingZeros[p][k]: the leading zeros among the p low bits of k.
LeadingZeros(p, k) ==
  IF k % Pow2(p) = 0 THEN p ELSE p - HighestBit(k % Pow2(p)) - 1

\* max_non0_bit of a code: the bits of it from its highest one on, looked
\* for among the 16 low bits.
MaxNon0Bit(c) == IF c % 65536 = 0 THEN 1 ELSE HighestBit(c % 65536) + 1

\* The symbols whose table entries cover lookupWhich[t][k].
LookupSet(t, k) ==
  {sym \in 0..255 :
     /\ d_clen[sym] > 0
     /\ d_code[sym] # 0
     /\ MaxNon0Bit(d_code[sym]) <= 8
     /\ d_clen[sym] - MaxNon0Bit(d_code[sym]) = t
     /\ k \div Pow2(8 - MaxNon0Bit(d_code[sym])) = d_code[sym]}

\* lookupWhich[t][k]: the last symbol that wrote the entry, or 256.
LookupWhich(t, k) ==
  IF LookupSet(t, k) = {} THEN 256
  ELSE CHOOSE sym \in LookupSet(t, k) : \A o \in LookupSet(t, k) : o <= sym

\* lookupLength[t][k] where lookupWhich[t][k] < 256.
LookupLengthOfByte(t, k) == 8

LookupLength(t, k) == MaxNon0Bit(d_code[LookupWhich(t, k)])

\* The state of the loop that decodes the symbols is the record
\* [buffer, bits, zc, out, used, ok, idx, ends]: buffer, bitsInBuffer,
\* zeroCount, the symbols decoded, the bytes read in this iteration, whether
\* the asserts have held, the greatest zeroCount that has indexed
\* lookupWhich and lookupLength, and the number of codes begun in buffer
\* that were ended in b and in nextb.

\* lookupWhich[zeroCount][..] is read.
Lookup(d) == [d EXCEPT !.idx = IF d.zc > @ THEN d.zc ELSE @]

\* The rows of lookupWhich and of lookupLength.
kLookupRows == 50

\* Extract code0s.
RECURSIVE ExtractCode0s(_)
ExtractCode0s(d) ==
  IF d.zc >= len0 /\ Len(d.out) < d_nRuns
    THEN ExtractCode0s([d EXCEPT !.out = Append(@, code0), !.zc = @ - len0])
    ELSE d

\* buffer << (8 - bitsInBuffer), as a byte.
SBuffer(d) == (d.buffer * Pow2(8 - d.bits)) % 256

\* Whether the tables give a code that lies within the bits of the buffer.
TableHit(d) ==
  /\ LookupWhich(d.zc, SBuffer(d)) < 256
  /\ d.bits >= LookupLength(d.zc, SBuffer(d))

\* The code found in the tables is taken out of the buffer.
TakeCode(d) ==
  LET which == LookupWhich(d.zc, SBuffer(d))
      bits1 == d.bits - LookupLength(d.zc, SBuffer(d))
      zc1   == LeadingZeros(bits1, d.buffer)
  IN [d EXCEPT !.out = Append(@, which),
               !.zc = zc1,
               !.bits = bits1 - zc1,
               !.buffer = @ % Pow2(bits1 - zc1)]

\* Extract codes from b: the loop that ends when a round decodes nothing.
RECURSIVE ExtractCodes(_)
ExtractCodes(d) ==
  IF Len(d.out) >= d_nRuns THEN d
  ELSE IF TableHit(d)
         THEN ExtractCodes(ExtractCode0s(TakeCode(Lookup(d))))
         ELSE IF d.zc >= len0 THEN ExtractCodes(ExtractCode0s(Lookup(d)))
              ELSE Lookup(d)

\* The code that began in the buffer ends in the byte b just read.
StraddlingCode(d, b) ==
  LET cbuffer == SBuffer(d) + (b \div Pow2(d.bits))
      which   == LookupWhich(d.zc, cbuffer)
  IN IF which >= 256 THEN [Lookup(d) EXCEPT !.ok = FALSE]
     ELSE LET bits1 == d.bits + (8 - LookupLength(d.zc, cbuffer))
              zc1   == LeadingZeros(bits1, b)
          IN [Lookup(d) EXCEPT !.out = Append(@, which),
                               !.zc = zc1,
                               !.bits = bits1 - zc1]

\* The branch for pending zeros and no bits in the buffer.
AfterZeros(d, b, nextb) ==
  IF b = 0
    THEN ExtractCode0s([d EXCEPT !.buffer = 0, !.zc = @ + 8])
    ELSE
      LET d1 == ExtractCode0s([d EXCEPT !.buffer = b,
                                        !.zc = @ + LeadingZeros(8, b),
                                        !.bits = 8 - LeadingZeros(8, b)])
          d2 == IF d1.zc + d1.bits > 8 /\ Len(d1.out) < d_nRuns
                  THEN ExtractCode0s(IF TableHit(d1) THEN TakeCode(Lookup(d1))
                                     ELSE Lookup(d1))
                  ELSE d1
      IN IF d2.zc + d2.bits <= 8 /\ Len(d2.out) < d_nRuns
           THEN ExtractCodes(d2)
           ELSE IF d2.zc + d2.bits > 8 /\ Len(d2.out) < d_nRuns
                  THEN LET d3 == StraddlingCode([d2 EXCEPT !.used = 2], nextb)
                       IN IF d3.ok
                            THEN ExtractCodes([d3 EXCEPT !.buffer = nextb,
                                                         !.ends.nextb = @ + 1])
                            ELSE d3
                  ELSE d2

\* The branch for no pending zeros and no bits in the buffer.
FreshByte(d, b) ==
  ExtractCodes([d EXCEPT !.buffer = b,
                         !.zc = LeadingZeros(8, b),
                         !.bits = 8 - LeadingZeros(8, b)])

\* The branch for bits in the buffer.
AfterBits(d, b) ==
  LET d1 == StraddlingCode(d, b)
  IN IF d1.ok THEN ExtractCodes([d1 EXCEPT !.buffer = b % Pow2(d1.bits),
                                           !.ends.b = @ + 1])
     ELSE d1

\* One iteration of the loop, on the byte b and the byte after it.
DecodeByte(d, b, nextb) ==
  IF d.zc > 0 /\ d.bits = 0 THEN AfterZeros(d, b, nextb)
  ELSE IF d.zc = 0 /\ d.bits = 0 THEN FreshByte(d, b)
  ELSE AfterBits(d, b)

\* decodeBlock: the number of runs of the section.
ReadNRuns ==
  /\ pc = "nruns_got"
  /\ d_nRuns' = U64Val(UnpackInteger(rpi_packed).result)
  /\ pc' = "ds"
  /\ UNCHANGED <<toolVars, m_in, in_pos, in_bit, m_out, packVars, rpiVars, blockVars,
                 trailerVars, shapeVars, dataVars, d_code, len0, code0,
                 d_buffer, d_bits, zeroCount, d_lookup, d_straddle, d_runseq,
                 d_runlen>>

\* The symbol whose code is zeros only, as the loop over k leaves b, code0
\* and len0: the last such symbol, or 0 with length 0.
ZeroCode(cl, cd) ==
  LET zs == {sym \in 0..255 : cl[sym] > 0 /\ cd[sym] = 0}
  IN IF zs = {} THEN [code0 |-> 0, len0 |-> 0]
     ELSE LET last == CHOOSE sym \in zs : \A o \in zs : o <= sym
          IN [code0 |-> last, len0 |-> cl[last]]

\* decodeBlock: the codes, the tables, and the symbol with the zeros-only code.
DecodeSymbolsBegin ==
  /\ pc = "ds_done"
  /\ d_code' = ComputeHuffmanCodes(d_clen)
  /\ len0' = ZeroCode(d_clen, d_code').len0
  /\ code0' = ZeroCode(d_clen, d_code').code0
  /\ d_buffer' = 0
  /\ d_bits' = 0
  /\ zeroCount' = 0
  /\ d_lookup' = 0
  /\ d_straddle' = [b |-> 0, nextb |-> 0]
  /\ d_runseq' = <<>>
  /\ pc' = "dec_loop"
  /\ UNCHANGED <<toolVars, m_in, in_pos, in_bit, m_out, packVars, rpiVars, blockVars,
                 trailerVars, shapeVars, dataVars, d_nRuns, d_runlen>>

\* One iteration of the loop that decodes the symbols.
DecodeSymbolsByte ==
  /\ pc = "dec_loop"
  /\ Len(d_runseq) < d_nRuns
  /\ LET d == DecodeByte([buffer |-> d_buffer, bits |-> d_bits,
                          zc |-> zeroCount, out |-> d_runseq,
                          used |-> 1, ok |-> TRUE,
                          idx |-> d_lookup, ends |-> d_straddle],
                         ReadByte(m_in, in_pos), ReadByte(m_in, in_pos + 1))
     IN /\ d_buffer' = d.buffer
        /\ d_bits' = d.bits
        /\ zeroCount' = d.zc
        /\ d_lookup' = d.idx
        /\ d_straddle' = d.ends
        /\ d_runseq' = d.out
        /\ in_pos' = in_pos + d.used
        /\ pc' = IF d.ok THEN "dec_loop" ELSE "assert_failed"
  /\ UNCHANGED <<toolVars, m_in, in_bit, m_out, packVars, rpiVars, blockVars,
                 trailerVars, shapeVars, dataVars, d_nRuns, d_code, len0,
                 code0, d_runlen>>

\* The end of the loop: flushBuffer.
DecodeSymbolsEnd ==
  /\ pc = "dec_loop"
  /\ Len(d_runseq) >= d_nRuns
  /\ in_pos' = FlushedPos(in_pos, in_bit)
  /\ in_bit' = 0
  /\ d_runlen' = <<>>
  /\ pc' = "dgamma_loop"
  /\ UNCHANGED <<toolVars, m_in, m_out, packVars, rpiVars, blockVars, trailerVars,
                 shapeVars, dataVars, d_nRuns, d_code, len0, code0, d_buffer,
                 d_bits, zeroCount, d_lookup, d_straddle, d_runseq>>

\* 1 << zeros of an int, as it is or-ed into 64 bits. From 31 on the shift
\* is undefined: the hardware shifts by the count modulo 32 and the sign is
\* extended, a folded constant gives 0.
IntOneShl(zeros) ==
  IF zeros < 31 THEN {{zeros}}
  ELSE {IF zeros % 32 = 31 THEN 31..63 ELSE {zeros % 32}, U64Zero}

\* The bits of value after the loop over t: the zeros bits from bit number p.
GammaValue(stream, p, zeros) ==
  {j \in 0..63 : j < zeros /\ ReadBitAt(stream, p + zeros - 1 - j) = 1}

\* One iteration of the loop that reads the lengths of the runs.
DecodeGamma ==
  /\ pc = "dgamma_loop"
  /\ Len(d_runlen) < d_nRuns
  /\ LET p     == in_pos * 8 + in_bit
         zeros == UnaryDecode(m_in, p) - 1
     IN /\ \E one \in IntOneShl(zeros) :
             d_runlen' = Append(d_runlen,
                                U64Or(GammaValue(m_in, p + zeros + 1, zeros), one)
                                  \cap (0..31))
        /\ in_pos' = (p + 2 * zeros + 1) \div 8
        /\ in_bit' = (p + 2 * zeros + 1) % 8
  /\ UNCHANGED <<toolVars, pc, m_in, m_out, packVars, rpiVars, blockVars, trailerVars,
                 shapeVars, dataVars, d_nRuns, d_code, len0, code0, d_buffer,
                 d_bits, zeroCount, d_lookup, d_straddle, d_runseq>>

\* The end of the loop: flushBuffer.
DecodeGammaEnd ==
  /\ pc = "dgamma_loop"
  /\ Len(d_runlen) >= d_nRuns
  /\ in_pos' = FlushedPos(in_pos, in_bit)
  /\ in_bit' = 0
  /\ pc' = "section_decoded"
  /\ UNCHANGED <<toolVars, m_in, m_out, packVars, rpiVars, blockVars, trailerVars,
                 payloadVars>>


-----------------------------------------------------------------------------
(* One section through encodeData and decodeBlock.                          *)

\* Longest sequence of runs whose symbols are all enumerated, the length of
\* the long sequences of runs, and the longest sequence of run lengths.
MaxSymRuns == 2
LongRuns == 12
MaxGammaRuns == 2

\* Code lengths of complete prefix codes, by rank: a comb of m codes
\* (1, 2, .., m-1, m-1), codes of one length, and mixtures.
Comb(m) == [i \in 1..m |-> IF i = m THEN m - 1 ELSE i]

\* The lengths given to the symbols 0, 1, .. and to the symbols 255, 254, ..
ClenAscending(list) ==
  [k \in 0..255 |-> IF k < Len(list) THEN list[k + 1] ELSE 0]

ClenDescending(list) ==
  [k \in 0..255 |-> IF 255 - k < Len(list) THEN list[256 - k] ELSE 0]

ShortLengthLists ==
  {Comb(m) : m \in {2, 3, 4, 9, 10}}
  \cup {[i \in 1..Pow2(d) |-> d] : d \in {2, 3}}
  \cup {<<1>>, <<1, 3, 3, 3, 3>>, <<2, 2, 2, 3, 3>>, <<3, 3, 2, 2, 2>>}

CodeInputs ==
  {ClenAscending(l) : l \in ShortLengthLists}
  \cup {ClenDescending(l) : l \in ShortLengthLists}

\* A code with eight codes of 43 bits, and symbols of it whose codes have
\* several bits from their first 1 on, behind 40 zeros: 101 and 111.
DeepCode == ClenDescending([i \in 1..48 |-> IF i <= 40 THEN i ELSE 43])

DeepProbes ==
  LET order == CodeOrder(DeepCode)
      n     == Len(order)
  IN {order[1], order[n - 5], order[n - 7]}

\* Codes of many symbols: with the longest lengths, and with all the symbols.
LongCodeInputs ==
  {ClenAscending(Comb(17)), ClenDescending(Comb(17)),
   ClenAscending(Comb(kMaxCodeLen + 1)),
   DeepCode,
   ClenAscending([i \in 1..64 |-> IF i <= 16 THEN 5 ELSE IF i <= 32 THEN 6 ELSE 7]),
   ClenAscending([i \in 1..256 |-> 8])}

\* Symbols of a code: with the shortest code, the zeros-only code, the code
\* before it and a code in the middle.
CodeProbes(cl) ==
  LET order == CodeOrder(cl)
      n     == Len(order)
  IN {order[1], order[n], order[IF n > 1 THEN n - 1 ELSE 1], order[(n + 1) \div 2]}

LongSequences(P) ==
  {[i \in 1..LongRuns |-> IF i % 2 = 1 THEN x ELSE y] : x \in P, y \in P}

SymbolSequences(P) ==
  UNION {[1..k -> P] : k \in 1..MaxSymRuns} \cup LongSequences(P)

\* Lengths of runs: small ones, and the ends of the range of 31 bits.
ProbeRunLens ==
  {1, 2, 3, 4, 255, 65536, 536870911, 536870912, 1073741824, 2147483647}

\* The sections: every code with sequences of its probe symbols in runs of
\* length 1, and two symbols in turn with every sequence of probe lengths.
SectionInputs ==
  UNION {{[clen |-> cl, runseq |-> q, runlen |-> [i \in 1..Len(q) |-> 1]] :
            q \in SymbolSequences(CodeProbes(cl))} : cl \in CodeInputs}
  \cup UNION {{[clen |-> cl, runseq |-> q, runlen |-> [i \in 1..Len(q) |-> 1]] :
            q \in LongSequences(CodeProbes(cl))} : cl \in LongCodeInputs}
  \cup {[clen |-> DeepCode, runseq |-> q, runlen |-> [i \in 1..Len(q) |-> 1]] :
            q \in LongSequences(DeepProbes)}
  \cup UNION {{[clen   |-> ClenAscending(<<1, 1>>),
                runseq |-> [i \in 1..k |-> i % 2],
                runlen |-> r] : r \in [1..k -> ProbeRunLens]} :
                k \in 1..MaxGammaRuns}

SectionInit ==
  /\ ToolsIdle
  /\ pc = "section"
  /\ \E x \in SectionInputs :
       /\ clen = x.clen
       /\ runseq = x.runseq
       /\ runlen = x.runlen
  /\ code = NoSymbols
  /\ buffer = U64Zero
  /\ bitsInBuffer = 0
  /\ enc_k = 0
  /\ DecIdle
  /\ d_clen = NoSymbols
  /\ ds_symbols = 0
  /\ ds_maxLen = 0
  /\ alphabet = <<>>
  /\ ds_i = 0
  /\ bitsRead = 0
  /\ m_in = <<>>
  /\ in_pos = 0
  /\ in_bit = 0
  /\ m_out = <<>>
  /\ PackIdle
  /\ RpiIdle
  /\ EncIdle
  /\ RbhIdle
  /\ TrailerIdle

SectionNext ==
  \/ WriteNRuns
  \/ WriteShape
  \/ EncodeSymbolsBegin
  \/ EncodeSymbol
  \/ EncodeSymbolsFlush
  \/ EncodeGamma
  \/ EncodeGammaFlush
  \/ OpenWritten
  \/ ReadPackedStep
  \/ ReadNRuns
  \/ DeserializeShapeBegin
  \/ DeserializeShapeSymbol
  \/ DeserializeShapeEnd
  \/ DecodeSymbolsBegin
  \/ DecodeSymbolsByte
  \/ DecodeSymbolsEnd
  \/ DecodeGamma
  \/ DecodeGammaEnd

SpecSection == SectionInit /\ [][SectionNext]_vars


-----------------------------------------------------------------------------
(* The decoder that reads one bit at a time, against which the loop of      *)
(* decodeBlock is compared.                                                 *)

\* One symbol read bit by bit from bit number p on: the first code of the
\* table that the bits read make. [sym, pos], sym = 256 where no code of at
\* most kMaxCodeLen bits, of a value below 2^30, is made.
RECURSIVE RefSymbol(_, _, _, _, _, _, _)
RefSymbol(stream, cl, cd, used, p, len, value) ==
  LET hits == {sym \in used : cl[sym] = len /\ cd[sym] = value}
  IN IF len > 0 /\ hits # {}
       THEN [sym |-> CHOOSE sym \in hits : TRUE, pos |-> p]
       ELSE IF len >= kMaxCodeLen \/ value >= Pow2(29)
              THEN [sym |-> 256, pos |-> p]
       ELSE RefSymbol(stream, cl, cd, used, p + 1, len + 1,
                      value * 2 + ReadBitAt(stream, p))

\* n symbols read bit by bit: [out, pos].
RECURSIVE RefDecode(_, _, _, _, _, _, _)
RefDecode(stream, cl, cd, used, p, n, out) ==
  IF n = 0 THEN [out |-> out, pos |-> p]
  ELSE LET r == RefSymbol(stream, cl, cd, used, p, 0, 0)
       IN IF r.sym = 256 THEN [out |-> Append(out, 256), pos |-> r.pos]
          ELSE RefDecode(stream, cl, cd, used, r.pos, n - 1, Append(out, r.sym))

\* The byte of the section at which the codes of the symbols begin.
SymbolsStart ==
  Len(PackedBytes(PackInteger(U64(Len(runseq))).result))
  + Len(BitsToBytes(SerializeShape(clen)))

\* The bits of the codes of the symbols of the runs.
SymbolBits == SumRange([i \in 1..Len(runseq) |-> clen[runseq[i]]], 1, Len(runseq))

IsPrefix(a, b) == Len(a) <= Len(b) /\ a = SubSeq(b, 1, Len(a))

C2_WitnessFlat ==
  /\ pc = "dgamma_loop"
  /\ d_runlen = <<>>
  /\ len0 = 8
  /\ d_nRuns = LongRuns
  /\ d_runseq = runseq
  /\ d_runseq[1] # d_runseq[2]

\* C7: the lengths of the runs, in [1, 2^31), that encodeData writes as
\* gamma codes are the lengths that decodeBlock reads, one after another.
C7_GammaRoundTrip ==
  pc = "section_decoded" =>
    d_runlen = [i \in 1..Len(runlen) |-> U64(runlen[i])]

\* A single length of a section of one run is read as it was written.
C7_SingleGammaRoundTrip ==
  (pc = "section_decoded" /\ Len(runlen) = 1) =>
    d_runlen = <<U64(runlen[1])>>

C7_SingleWitness ==
  /\ pc = "section_decoded"
  /\ runlen = <<2147483647>>
  /\ d_runlen = <<U64(2147483647)>>

\* The records [bits, out] that the loop making room for the next code of
\* encodeData can end with, in the loop over the symbols and in the loop
\* over the lengths of the runs.
RoomForNextCode ==
  IF enc_k >= Len(runseq) THEN {}
  ELSE FlushForCode(buffer, [bits |-> bitsInBuffer, out |-> <<>>],
                    IF pc = "enc_loop" THEN clen[runseq[enc_k + 1]]
                    ELSE LogFloor(runlen[enc_k + 1]) * 2 + 1)

\* C27: in both loops of encodeData bitsInBuffer stays within 0..64, before
\* and after the loop that makes room for a code, so that no shift has a
\* negative count and no pending bit leaves the buffer unwritten.
C27_BitsInBufferInRange ==
  pc \in {"enc_loop", "gamma_loop"} =>
    /\ bitsInBuffer \in 0..64
    /\ \A st \in RoomForNextCode : st.bits \in 0..64

\* The loop over the symbols alone keeps bitsInBuffer within 0..64, the codes
\* having at most 47 bits.
C27_SymbolLoopInRange ==
  pc = "enc_loop" =>
    /\ bitsInBuffer \in 0..64
    /\ \A st \in RoomForNextCode : st.bits \in 0..64

\* The loop over the lengths holds 5 bits, the code of 4, and makes room for
\* the 61 bits of 2147483647: bitsInBuffer is -3 when the byte is written.
C27_WitnessNegativeShift ==
  /\ pc = "gamma_loop"
  /\ enc_k = 1
  /\ bitsInBuffer = 5
  /\ Len(runlen) > 1
  /\ runlen[enc_k + 1] = 2147483647
  /\ \E st \in RoomForNextCode : st.bits = -3 /\ Len(st.out) = 1

C23_WitnessInB ==
  /\ pc = "dgamma_loop"
  /\ d_straddle.b > 1
  /\ d_lookup > 0
  /\ d_runseq = runseq

-----------------------------------------------------------------------------
(* One BWT block through the encoder, as compress drives it:                *)
(* writeBlockHeader, encodeData for each part that the transform hands      *)
(* over, and finishBlock, which back-patches the length of the block.       *)

\* The encodeData calls for one block, and the bytes of output below which
\* compress goes on to a next block.
MaxPhases == 2
MaxOut == 24

\* Encoder::WriteGlobalHeader: the bytes of preproc and of encoding.
GlobalHeader == <<110, 72>>

\* The runs of the bytes [from, from + size) of data given as a list of runs:
\* utils::calculateRunFrequenciesAndStoreRuns on block_ptr + beg.
RECURSIVE CalculateRuns(_, _, _, _)
CalculateRuns(data, k, from, size) ==
  IF size = 0 \/ k > Len(data) THEN <<>>
  ELSE IF from >= data[k].len
         THEN CalculateRuns(data, k + 1, from - data[k].len, size)
  ELSE LET n == IF data[k].len - from < size THEN data[k].len - from ELSE size
       IN <<[sym |-> data[k].sym, len |-> n]>>
            \o CalculateRuns(data, k + 1, 0, size - n)

\* freqs[sym]: the runs of the symbol.
RunFrequency(runs, sym) == Cardinality({i \in 1..Len(runs) : runs[i].sym = sym})

\* utils::calculateHuffmanLengths for up to three symbols: one bit each for
\* one or two symbols; of three, the most frequent has one bit, the others two.
CalculateHuffmanLengths(runs) ==
  LET syms == {runs[i].sym : i \in 1..Len(runs)}
      top  == CHOOSE a \in syms :
                \A o \in syms :
                  \/ RunFrequency(runs, a) > RunFrequency(runs, o)
                  \/ RunFrequency(runs, a) = RunFrequency(runs, o) /\ a <= o
  IN [k \in 0..255 |-> IF k \notin syms THEN 0
                       ELSE IF Cardinality(syms) <= 2 \/ k = top THEN 1
                       ELSE 2]

\* Data of a block of total bytes: one run, or runs of the lengths 1, 2, 9998
\* and 3 in turn, of three symbols in turn.
RECURSIVE CycleRuns(_, _)
CycleRuns(total, k) ==
  IF total = 0 THEN <<>>
  ELSE LET want == <<1, 2, 9998, 3>>[(k % 4) + 1]
           n    == IF want < total THEN want ELSE total
       IN <<[sym |-> 97 + (k % 3), len |-> n]>> \o CycleRuns(total - n, k + 1)

BlockData(total) ==
  {IF total = 0 THEN <<>> ELSE <<[sym |-> 0, len |-> total]>>,
   CycleRuns(total, 0)}

\* The statistics of a block: those of the leading contexts, the others 0.
BlockStats ==
  {[i \in 1..256 |-> IF i <= Len(lead) THEN lead[i] ELSE 0] :
     lead \in {<<0>>, <<1>>, <<9999, 1>>, <<10000, 5>>, <<10000, 9999, 1>>}}

BlockPowers == {<<1>>, <<2147483647, 0>>}

\* compress: encodeData is called for the next part of the transformed block.
EncodeDataBegin ==
  /\ pc \in {"header_written", "phase_done"}
  /\ phases < MaxPhases
  /\ ed_block' \in BlockData(SumRange(stats, 1, Len(stats)))
  /\ ed_i' = 0
  /\ beg' = 0
  /\ phases' = phases + 1
  /\ pc' = "ed_loop"
  /\ UNCHANGED <<toolVars, m_in, in_pos, in_bit, m_out, packVars, rpiVars, rbhVars,
                 stats, wbhVars, m_headerPosition, m_compressedBlockLength,
                 trailerVars, payloadVars>>

\* encodeData: the head of the loop over the sections, up to the code lengths.
EncodeDataSection ==
  /\ pc = "ed_loop"
  /\ ed_i < Len(stats)
  /\ IF stats[ed_i + 1] = 0
       THEN /\ ed_i' = ed_i + 1
            /\ UNCHANGED <<pc, clen, runseq, runlen>>
       ELSE LET runs == CalculateRuns(ed_block, 1, beg, stats[ed_i + 1])
            IN /\ runseq' = [k \in 1..Len(runs) |-> runs[k].sym]
               /\ runlen' = [k \in 1..Len(runs) |-> runs[k].len]
               /\ clen' = CalculateHuffmanLengths(runs)
               /\ pc' = "section"
               /\ ed_i' = ed_i
  /\ UNCHANGED <<toolVars, m_in, in_pos, in_bit, m_out, packVars, rpiVars, rbhVars,
                 stats, wbhVars, m_headerPosition, m_compressedBlockLength,
                 ed_block, beg, phases, trailerVars, d_clen, ds_symbols,
                 ds_maxLen, alphabet, ds_i, bitsRead, code, buffer,
                 bitsInBuffer, enc_k, decVars>>

\* encodeData: the end of an iteration of the loop over the sections.
EncodeDataNext ==
  /\ pc = "section_written"
  /\ beg' = beg + stats[ed_i + 1]
  /\ ed_i' = ed_i + 1
  /\ pc' = "ed_loop"
  /\ UNCHANGED <<toolVars, m_in, in_pos, in_bit, m_out, packVars, rpiVars, rbhVars,
                 stats, wbhVars, m_headerPosition, m_compressedBlockLength,
                 ed_block, phases, trailerVars, payloadVars>>

\* encodeData returns.
EncodeDataEnd ==
  /\ pc = "ed_loop"
  /\ ed_i >= Len(stats)
  /\ pc' = "phase_done"
  /\ UNCHANGED <<toolVars, m_in, in_pos, in_bit, m_out, packVars, rpiVars, blockVars,
                 trailerVars, payloadVars>>

\* finishBlock is called: writeTrailer begins.
FinishBlockBegin ==
  /\ pc \in {"header_written", "phase_done"}
  /\ LFpowers' \in BlockPowers
  /\ pc' = "trailer"
  /\ UNCHANGED <<toolVars, m_in, in_pos, in_bit, m_out, packVars, rpiVars, blockVars,
                 wt_i, wt_s, bitsLeft, wt_bytes, rd_LFpowers, payloadVars>>

\* RawOutStream::write48bits: six bytes of the stream are replaced.
Write48bits(stream, x, pos) ==
  [k \in 1..Len(stream) |->
     IF k > pos /\ k <= pos + 6 THEN Bytes48(x)[k - pos] ELSE stream[k]]

\* finishBlock after writeTrailer: the length is added up and back-patched.
FinishBlockPatch ==
  /\ pc = "trailer_written"
  /\ m_compressedBlockLength' = m_compressedBlockLength + wt_bytes
  /\ m_out' = Write48bits(m_out, U64(m_compressedBlockLength'), m_headerPosition)
  /\ pc' = "block_done"
  /\ UNCHANGED <<toolVars, m_in, in_pos, in_bit, packVars, rpiVars, rbhVars, stats,
                 wbhVars, m_headerPosition, edVars, trailerVars, payloadVars>>

\* compress: the next block is read and its statistics are built.
NextBlock ==
  /\ pc = "block_done"
  /\ Len(m_out) < MaxOut
  /\ stats' \in BlockStats
  /\ phases' = 0
  /\ pc' = "header"
  /\ UNCHANGED <<toolVars, m_in, in_pos, in_bit, m_out, packVars, rpiVars, rbhVars,
                 wbhVars, m_headerPosition, m_compressedBlockLength, ed_block,
                 ed_i, beg, trailerVars, payloadVars>>

BlockInit ==
  /\ ToolsIdle
  /\ pc = "header"
  /\ stats \in BlockStats
  /\ m_out = GlobalHeader
  /\ WbhIdle
  /\ EdIdle
  /\ m_headerPosition = 0
  /\ m_compressedBlockLength = 0
  /\ m_in = <<>>
  /\ in_pos = 0
  /\ in_bit = 0
  /\ PackIdle
  /\ RpiIdle
  /\ RbhIdle
  /\ TrailerIdle
  /\ PayloadIdle

BlockNext ==
  \/ WriteBlockHeaderBegin
  \/ WriteBlockHeaderSection
  \/ WriteBlockHeaderEnd
  \/ EncodeDataBegin
  \/ EncodeDataSection
  \/ WriteNRuns
  \/ WriteShape
  \/ EncodeSymbolsBegin
  \/ EncodeSymbol
  \/ EncodeSymbolsFlush
  \/ EncodeGamma
  \/ EncodeGammaFlush
  \/ EncodeDataNext
  \/ EncodeDataEnd
  \/ FinishBlockBegin
  \/ WriteTrailerBegin
  \/ WriteTrailerPower
  \/ WriteTrailerEnd
  \/ FinishBlockPatch
  \/ NextBlock

SpecBlock == BlockInit /\ [][BlockNext]_vars

\* The bytes written to the stream after the six bytes of the placeholder.
BytesSincePlaceholder == Len(m_out) - m_headerPosition - 6

-----------------------------------------------------------------------------
(* FreqTable of the preprocessors: the pairs (byte, count) kept in the     *)
(* order of the counts, and the slot of every byte.                         *)

\* Calls of Increase and Decrease made on one table.
MaxTableCalls == 2

\* A count of 64 bits is the list of its four groups of 16 bits, the highest
\* first, so that sums and differences wrap as the machine's do.
W64(n) == <<0, 0, n \div 65536, n % 65536>>

W64Max == <<65535, 65535, 65535, 65535>>

W64Less(x, y) ==
  \E i \in 1..4 : x[i] < y[i] /\ \A j \in 1..(i - 1) : x[j] = y[j]

W64Add(x, y) ==
  LET s4 == x[4] + y[4]
      s3 == x[3] + y[3] + s4 \div 65536
      s2 == x[2] + y[2] + s3 \div 65536
      s1 == x[1] + y[1] + s2 \div 65536
  IN <<s1 % 65536, s2 % 65536, s3 % 65536, s4 % 65536>>

W64Sub(x, y) ==
  LET d4 == x[4] - y[4]
      d3 == x[3] - y[3] - (IF d4 < 0 THEN 1 ELSE 0)
      d2 == x[2] - y[2] - (IF d3 < 0 THEN 1 ELSE 0)
      d1 == x[1] - y[1] - (IF d2 < 0 THEN 1 ELSE 0)
  IN <<(d1 + 65536) % 65536, (d2 + 65536) % 65536,
       (d3 + 65536) % 65536, (d4 + 65536) % 65536>>

\* InitLocations: the slot of every key, the last one written for it. The
\* slots are gathered by halves, the higher half taking precedence.
RECURSIVE SlotsOfKeys(_, _, _)
SlotsOfKeys(freq, lo, hi) ==
  IF lo = hi THEN freq[lo].first :> lo
  ELSE SlotsOfKeys(freq, (lo + hi) \div 2 + 1, hi)
         @@ SlotsOfKeys(freq, lo, (lo + hi) \div 2)

InitLocations(freq) ==
  LET slot == SlotsOfKeys(freq, 0, 255)
  IN [key \in 0..255 |-> slot[key]]

\* The first slot of lo..hi at which the loop of Increase stops, hi + 1 if
\* there is none: the last slot, or a slot whose successor does not hold less
\* than new_value. The search is by halves.
RECURSIVE FirstIncreaseStop(_, _, _, _)
FirstOr(found, freq, new_value, mid, hi) ==
  IF found <= mid THEN found ELSE FirstIncreaseStop(freq, new_value, mid + 1, hi)

FirstIncreaseStop(freq, new_value, lo, hi) ==
  IF lo > hi THEN hi + 1
  ELSE IF lo = hi
         THEN IF lo < 255 /\ W64Less(freq[lo + 1].second, new_value)
                THEN hi + 1 ELSE lo
  ELSE FirstOr(FirstIncreaseStop(freq, new_value, lo, (lo + hi) \div 2),
               freq, new_value, (lo + hi) \div 2, hi)

IncreaseStop(freq, new_value, j) == FirstIncreaseStop(freq, new_value, j, 255)

\* The last slot of lo..hi at which the loop of Decrease stops, lo - 1 if
\* there is none: slot 0, or a slot whose predecessor does not hold more than
\* new_value.
RECURSIVE LastDecreaseStop(_, _, _, _)
LastOr(found, freq, new_value, lo, mid) ==
  IF found > mid THEN found ELSE LastDecreaseStop(freq, new_value, lo, mid)

LastDecreaseStop(freq, new_value, lo, hi) ==
  IF lo > hi THEN lo - 1
  ELSE IF lo = hi
         THEN IF lo > 0 /\ W64Less(new_value, freq[lo - 1].second)
                THEN lo - 1 ELSE lo
  ELSE LastOr(LastDecreaseStop(freq, new_value, (lo + hi) \div 2 + 1, hi),
              freq, new_value, lo, (lo + hi) \div 2)

DecreaseStop(freq, new_value, j) == LastDecreaseStop(freq, new_value, 0, j)

\* location_ after by is added, once for each slot of lo..hi, to the entry
\* of the key of that slot; keys is the set of the keys of those slots.
MoveKeys(keys, loc, freq, lo, hi, by) ==
  [key \in 0..255 |->
     IF key \notin keys THEN loc[key]
     ELSE IF Cardinality(keys) = hi - lo + 1 THEN loc[key] + by
     ELSE loc[key] + by * Cardinality({j \in lo..hi : freq[j].first = key})]

\* The entries of location_ are left as they were.
MoveLocationsNot(loc, freq, lo, hi, by) == loc

MoveLocations(loc, freq, lo, hi, by) ==
  MoveKeys({freq[j].first : j \in lo..hi}, loc, freq, lo, hi, by)

\* FreqTable::Increase: [freq, loc] after the call.
Increase(freq, loc, key, value) ==
  LET freq_index == loc[key]
      new_value  == W64Add(freq[freq_index].second, value)
      new_pair   == [first |-> freq[freq_index].first, second |-> new_value]
      stop       == IncreaseStop(freq, new_value, freq_index)
  IN [freq |-> [i \in 0..255 |->
                  IF i >= freq_index /\ i < stop THEN freq[i + 1]
                  ELSE IF i = stop THEN new_pair
                  ELSE freq[i]],
      loc  |-> [MoveLocations(loc, freq, freq_index + 1, stop, -1)
                  EXCEPT ![new_pair.first] = stop]]

\* FreqTable::Decrease past its test: the count is lowered and the pair is
\* moved down to its place.
Lowered(freq, loc, key, value) ==
  LET freq_index == loc[key]
      new_value  == W64Sub(freq[freq_index].second, value)
      new_pair   == [first |-> freq[freq_index].first, second |-> new_value]
      stop       == DecreaseStop(freq, new_value, freq_index)
  IN [freq |-> [i \in 0..255 |->
                  IF i <= freq_index /\ i > stop THEN freq[i - 1]
                  ELSE IF i = stop THEN new_pair
                  ELSE freq[i]],
      loc  |-> [MoveLocations(loc, freq, stop, freq_index - 1, 1)
                  EXCEPT ![new_pair.first] = stop],
      ret  |-> TRUE]

\* A Decrease that also fails where the value is the whole count.
DecreaseKeepsOne(freq, loc, key, value) ==
  IF ~W64Less(value, freq[loc[key]].second)
    THEN [freq |-> freq, loc |-> loc, ret |-> FALSE]
    ELSE Lowered(freq, loc, key, value)

\* FreqTable::Decrease: [freq, loc, ret] after the call.
Decrease(freq, loc, key, value) ==
  IF W64Less(freq[loc[key]].second, value)
    THEN [freq |-> freq, loc |-> loc, ret |-> FALSE]
    ELSE Lowered(freq, loc, key, value)

ProbeKeys == {0, 128, 255}
ProbeDeltas == {W64(1), W64(5), W64Max}

\* The tables that FreqTable(frequencies) leaves: the pairs in the order of
\* the counts, equal counts in the order of the keys or against it. The
\* counts are all equal, all different, equal in groups, or near 2^64.
SortedTables ==
  {[i \in 0..255 |-> [first |-> i, second |-> W64(c)]] : c \in {0, 5}}
  \cup {[i \in 0..255 |-> [first |-> 255 - i, second |-> W64(5)]],
        [i \in 0..255 |-> [first |-> 255 - i, second |-> W64(i)]],
        [i \in 0..255 |-> [first |-> i, second |-> W64(2 * (i \div 64))]],
        [i \in 0..255 |-> [first |-> (i + 128) % 256,
                           second |-> W64Sub(W64Max, W64(255 - i))]]}

FtIncrease ==
  /\ pc = "table"
  /\ ft_calls < MaxTableCalls
  /\ \E key \in ProbeKeys, value \in ProbeDeltas :
       LET t == Increase(freq_, location_, key, value)
       IN /\ freq_' = t.freq
          /\ location_' = t.loc
          /\ ft_key' = key
          /\ ft_value' = value
  /\ ft_op' = "Increase"
  /\ ft_ret' = ft_ret
  /\ ft_calls' = ft_calls + 1
  /\ UNCHANGED <<pc, m_in, in_pos, in_bit, m_out, packVars, rpiVars, blockVars,
                 trailerVars, payloadVars, dzVars, prepVars>>

FtDecrease ==
  /\ pc = "table"
  /\ ft_calls < MaxTableCalls
  /\ \E key \in ProbeKeys, value \in ProbeDeltas :
       LET t == Decrease(freq_, location_, key, value)
       IN /\ freq_' = t.freq
          /\ location_' = t.loc
          /\ ft_ret' = t.ret
          /\ ft_key' = key
          /\ ft_value' = value
  /\ ft_op' = "Decrease"
  /\ ft_calls' = ft_calls + 1
  /\ UNCHANGED <<pc, m_in, in_pos, in_bit, m_out, packVars, rpiVars, blockVars,
                 trailerVars, payloadVars, dzVars, prepVars>>

FreqInit ==
  /\ pc = "table"
  /\ freq_ \in SortedTables
  /\ location_ = InitLocations(freq_)
  /\ ft_calls = 0
  /\ ft_op = "none"
  /\ ft_key = 0
  /\ ft_value = W64(0)
  /\ ft_ret = TRUE
  /\ DzIdle
  /\ PrepIdle
  /\ m_in = <<>>
  /\ in_pos = 0
  /\ in_bit = 0
  /\ m_out = <<>>
  /\ PackIdle
  /\ RpiIdle
  /\ EncIdle
  /\ RbhIdle
  /\ TrailerIdle
  /\ PayloadIdle

FreqNext ==
  \/ FtIncrease
  \/ FtDecrease

SpecFreq == FreqInit /\ [][FreqNext]_vars

\* The counts are in ascending order of the slots.
CountsSorted ==
  \A i \in 0..254 : ~W64Less(freq_[i + 1].second, freq_[i].second)

\* No call of Increase so far has carried out of the 64 bits: the count of
\* the key of the last call of Increase is not less than the value added.
LastIncreaseFits ==
  ft_op = "Increase" => ~W64Less(freq_[location_[ft_key]].second, ft_value)

\* C10: after every sequence of calls of Increase and Decrease the counts
\* are in ascending order of the slots: freq_[i].second <= freq_[i+1].second
\* for 0 <= i < 255.
C10_CountsSorted == pc = "table" => CountsSorted

\* A call that finds the counts in order and does not carry out of the 64
\* bits leaves them in order.
C10_SortedIsKeptWithoutCarry ==
  [][(pc = "table" /\ CountsSorted /\ LastIncreaseFits') => CountsSorted']_vars

\* C11: after construction and after every sequence of calls, every slot i
\* holds a key whose entry of location_ is i, and the keys of the 256 slots
\* are the 256 byte values, each once.
C11_LocationsAndKeys ==
  pc = "table" =>
    /\ \A i \in 0..255 : location_[freq_[i].first] = i
    /\ {freq_[i].first : i \in 0..255} = 0..255

\* The calls have moved keys through the table, one of them across more
\* than a hundred slots.
C11_Witness ==
  /\ pc = "table"
  /\ ft_calls = MaxTableCalls
  /\ \E key \in ProbeKeys :
       \/ location_[key] - key > 100
       \/ key - location_[key] > 100

\* C12: a call of Decrease returns false exactly when the value is greater
\* than the count of the key, and then leaves freq_ and location_ as they
\* were; otherwise it returns true and the count of the key is lower by
\* exactly the value.
C12_DecreaseContract ==
  [][(pc = "table" /\ ft_op' = "Decrease" /\ ft_calls' = ft_calls + 1) =>
       LET count == freq_[location_[ft_key']].second
       IN /\ ft_ret' = ~W64Less(count, ft_value')
          /\ ~ft_ret' => freq_' = freq_ /\ location_' = location_
          /\ ft_ret' => freq_'[location_'[ft_key']].second
                           = W64Sub(count, ft_value')]_vars

\* A call of Decrease has failed, and a call has succeeded.
C12_Witness ==
  /\ pc = "table"
  /\ ft_op = "Decrease"
  /\ ~ft_ret
  /\ ft_calls >= 2

C12_WitnessLowered ==
  /\ pc = "table"
  /\ ft_op = "Decrease"
  /\ ft_ret
  /\ ft_value = W64(5)
  /\ location_[ft_key] # ft_key

-----------------------------------------------------------------------------
(* A file through compress and then through Decompressor::decompress.       *)

\* The longest input file.
MaxInput == 3

\* The values of threads that decompress is called with.
ThreadCounts == {0, 1, 2, 4}

\* The bytes compress writes for the input from byte number from on: for
\* every block of up to size bytes a precompressor-block of its length, one
\* slice and its payload, and at the end a block of length 0. The payload
\* stands for the coded slice.
RECURSIVE CompressBlocks(_, _, _)
CompressBlocks(input, from, size) ==
  IF from > Len(input) THEN <<0>>
  ELSE LET n == IF Len(input) - from + 1 < size
                  THEN Len(input) - from + 1 ELSE size
       IN <<n, 1>> \o SubSeq(input, from, from + n - 1)
            \o CompressBlocks(input, from + n, size)

Compress(input, size) == GlobalHeader \o CompressBlocks(input, 1, size)

\* compress: the whole file is written.
DoCompress ==
  /\ pc = "file"
  /\ m_out' = Compress(source, block_size)
  /\ pc' = "compressed"
  /\ UNCHANGED <<toolVars, m_in, in_pos, in_bit, packVars, rpiVars, blockVars,
                 trailerVars, payloadVars>>

\* The test of threads at the head of Decompressor::decompress: where the
\* call goes on.
DecompressEntryUnchecked(t) == "dz_header"

DecompressEntry(t) == IF t # 1 THEN "dz_refused" ELSE "dz_header"

\* Decompressor::decompress is called on the file: with threads other than 1
\* it returns at once.
DecompressBegin ==
  /\ pc = "compressed"
  /\ m_in' = m_out
  /\ in_pos' = 0
  /\ \E t \in ThreadCounts :
       /\ threads' = t
       /\ pc' = DecompressEntry(t)
  /\ UNCHANGED <<prepVars, freqVars, source, block_size, dz_out, decompressedSize,
                 dz_slices, dz_i, m_decoder, in_bit, m_out, packVars, rpiVars,
                 blockVars, trailerVars, payloadVars>>

\* Decompressor::readGlobalHeader: one byte is read, and the decoder of
\* that kind takes the place of m_decoder.
ReadGlobalHeader ==
  /\ pc = "dz_header"
  /\ in_pos' = in_pos + 1
  /\ m_decoder' = [kind |-> ReadByte(m_in, in_pos)]
  /\ decompressedSize' = 1
  /\ pc' = "dz_block"
  /\ UNCHANGED <<prepVars, freqVars, source, block_size, dz_out, dz_slices, dz_i,
                 threads, m_in,
                 in_bit, m_out, packVars, rpiVars, blockVars, trailerVars,
                 payloadVars>>

\* PrecompressorBlock::readBlockHeader and the test of the loop: the length
\* of the block, 0 at the end of the file, its slices and its payload.
ReadPrecompressorBlock ==
  /\ pc = "dz_block"
  /\ LET originalSize == IF in_pos >= Len(m_in) THEN 0 ELSE ReadByte(m_in, in_pos)
     IN IF originalSize = 0
          THEN /\ pc' = "dz_done"
               /\ in_pos' = in_pos + 1
               /\ UNCHANGED <<decompressedSize, dz_slices, dz_i>>
          ELSE /\ decompressedSize' = decompressedSize + originalSize
               /\ dz_slices' = ReadByte(m_in, in_pos + 1)
               /\ dz_i' = 0
               /\ in_pos' = in_pos + 2 + originalSize
               /\ pc' = "dz_slices"
  /\ UNCHANGED <<prepVars, freqVars, source, block_size, dz_out, threads, m_decoder,
                 m_in, in_bit, m_out, packVars, rpiVars, blockVars, trailerVars,
                 payloadVars>>

\* One iteration of the loop over the slices: setBegin, and nothing else.
DecompressSlice ==
  /\ pc = "dz_slices"
  /\ dz_i < dz_slices
  /\ dz_i' = dz_i + 1
  /\ UNCHANGED <<prepVars, freqVars, source, block_size, dz_out, decompressedSize,
                 dz_slices, threads, m_decoder, pc, m_in, in_pos, in_bit, m_out,
                 packVars, rpiVars,
                 blockVars, trailerVars, payloadVars>>

\* The end of the loop over the slices: delete pb.
DecompressBlockEnd ==
  /\ pc = "dz_slices"
  /\ dz_i >= dz_slices
  /\ pc' = "dz_block"
  /\ UNCHANGED <<toolVars, m_in, in_pos, in_bit, m_out, packVars, rpiVars,
                 blockVars, trailerVars, payloadVars>>

DecompressInit ==
  /\ pc = "file"
  /\ source \in UNION {[1..n -> {0, 97}] : n \in 0..MaxInput}
  /\ block_size \in {1, 2}
  /\ dz_out = <<>>
  /\ decompressedSize = 0
  /\ dz_slices = 0
  /\ dz_i = 0
  /\ threads = 1
  /\ m_decoder = 0
  /\ FreqIdle
  /\ PrepIdle
  /\ m_in = <<>>
  /\ in_pos = 0
  /\ in_bit = 0
  /\ m_out = <<>>
  /\ PackIdle
  /\ RpiIdle
  /\ EncIdle
  /\ RbhIdle
  /\ TrailerIdle
  /\ PayloadIdle

DecompressNext ==
  \/ DoCompress
  \/ DecompressBegin
  \/ ReadGlobalHeader
  \/ ReadPrecompressorBlock
  \/ DecompressSlice
  \/ DecompressBlockEnd

SpecDecompress == DecompressInit /\ [][DecompressNext]_vars

\* C1: when decompress has gone through the file that compress wrote for the
\* input s, s is what it has written to its output stream.
C1_RoundTrip == pc = "dz_done" => dz_out = source

\* C21: a call of decompress with threads other than 1 returns at once: no
\* byte is taken from the input stream, none is written to the output
\* stream, m_decoder is the one it was, and nothing follows the return.
C21_RefusedBeforeIO ==
  [][/\ (pc = "compressed" /\ threads' # 1) =>
          /\ pc' = "dz_refused"
          /\ in_pos' = in_pos
          /\ dz_out' = dz_out
          /\ m_decoder' = m_decoder
     /\ pc = "dz_refused" => pc' = pc]_vars

\* decompress has been called with 2 threads on a file with a block in it.
C21_Witness ==
  /\ pc = "dz_refused"
  /\ threads = 2
  /\ Len(m_in) > 3
  /\ in_pos = 0

\* decompress has been called with no thread at all.
C21_WitnessZero ==
  /\ pc = "dz_refused"
  /\ threads = 0

\* Decompressor::decompress writes nothing at all.
C1_NothingIsWritten == dz_out = <<>>

-----------------------------------------------------------------------------
(* The replacer of common pairs: CompressCommonPairs and the routines of    *)
(* the namespace commonpairs.                                               *)

\* The longest block of which every content is tried.
MaxBlock == 6

\* FindReplaceablePairs stops at this many pairs.
kMaxPairs == 254

\* A pair of bytes as the uint16 that indexes pair_freq, and its two bytes.
PairOf(fst, snd) == fst * 256 + snd
FirstOf(pair) == (pair \div 256) % 256
SecondOf(pair) == pair % 256

\* ComputePairFrequencies: the count of every byte.
ByteFrequencies(data) ==
  LET present == {data[i] : i \in 1..Len(data)}
  IN [sym \in 0..255 |->
        IF sym \in present
          THEN Cardinality({i \in 1..Len(data) : data[i] = sym})
          ELSE 0]

\* ComputePairFrequencies: the count of every pair that occurs; the other
\* entries of pair_freq stay 0. at[i] is the pair at i. The count has 32
\* bits, which a block of less than 2^32 bytes does not exceed.
PairCounts(at) ==
  [pair \in {at[i] : i \in DOMAIN at} |->
     Cardinality({i \in DOMAIN at : at[i] = pair})]

PairFrequencies(data) ==
  PairCounts([i \in 1..(Len(data) - 1) |-> PairOf(data[i], data[i + 1])])

\* pair_freqs[pair].second
PairCount(pairs, pair) == IF pair \in DOMAIN pairs THEN pairs[pair] ELSE 0

\* The keys 0..255 in ascending and in descending order.
KeysAscending == [i \in 1..256 |-> i - 1]
KeysDescending == [i \in 1..256 |-> 256 - i]

\* The values of a set of counts in ascending order.
RECURSIVE SortedCounts(_)
SortedCounts(S) ==
  IF S = {} THEN <<>>
  ELSE LET least == CHOOSE c \in S : \A o \in S : c <= o
       IN <<least>> \o SortedCounts(S \ {least})

\* The keys in the order of their counts, the keys of one count in the order
\* they have in keys.
RECURSIVE SortedKeys(_, _, _, _)
SortedKeys(frequencies, counts, k, keys) ==
  IF k > Len(counts) THEN <<>>
  ELSE SelectSeq(keys, LAMBDA key : frequencies[key] = counts[k])
         \o SortedKeys(frequencies, counts, k + 1, keys)

TableOfOrder(frequencies, order) ==
  [i \in 0..255 |-> [first |-> order[i + 1],
                     second |-> W64(frequencies[order[i + 1]])]]

\* FreqTable::FreqTable(frequencies): the pairs sorted by std::sort on the
\* counts alone, which leaves the order of equal counts open; keys is the
\* order they are given.
FreqTable(frequencies, keys) ==
  TableOfOrder(frequencies,
               SortedKeys(frequencies,
                          SortedCounts({frequencies[key] : key \in 0..255}),
                          1, keys))

\* CompressCommonPairs up to the call of FindReplaceablePairs: the counts,
\* the table and the number of symbols that do not occur.
CompressCommonPairsBegin ==
  /\ pc = "block"
  /\ Len(cp_from) > 0
  /\ \E keys \in {KeysAscending, KeysDescending} :
       freq_' = FreqTable(ByteFrequencies(cp_from), keys)
  /\ location_' = InitLocations(freq_')
  /\ free_symbols' = Cardinality({i \in 0..255 : freq_'[i].second = W64(0)})
  /\ pair_freq' = PairFrequencies(cp_from)
  /\ pc' = "find"
  /\ UNCHANGED <<ftCallVars, dzVars, coderVars, afterCpVars, cp_block, cp_from, cp_seen, current_pair, cp_limit,
                 replaceable_pairs, escape_index, cp_temp, position, wr_i,
                 total_size>>

\* Increase(fst, count) and then Increase(snd, count).
IncreaseBoth(t, fst, snd, count) ==
  Increase(Increase(t.freq, t.loc, fst, count).freq,
           Increase(t.freq, t.loc, fst, count).loc, snd, count)

\* Only the first bytes of the pairs already chosen are compared.
ConflictsOnFirst(chosen, fst, snd) ==
  \E k \in 1..Len(chosen) : FirstOf(chosen[k].first) = snd

\* A pair already chosen has snd as its first byte or fst as its second.
Conflicts(chosen, fst, snd) ==
  \E k \in 1..Len(chosen) :
    FirstOf(chosen[k].first) = snd \/ SecondOf(chosen[k].first) = fst

\* The rest of an iteration in which a pair that fails condition (p1) is
\* passed like a pair in conflict, with no break.
FindChoiceNoBreak(t, chosen, pair, count) ==
  IF ~W64Less(W64Add(t.freq[Len(chosen)].second, W64(3)), W64(count))
       \/ Conflicts(chosen, FirstOf(pair), SecondOf(pair))
    THEN [table |-> IncreaseBoth(t, FirstOf(pair), SecondOf(pair), W64(count)),
          pairs |-> chosen, stop |-> FALSE]
    ELSE [table |-> [freq |-> t.freq, loc |-> t.loc],
          pairs |-> Append(chosen, [first |-> pair, second |-> count]),
          stop |-> FALSE]

\* The rest of an iteration of FindReplaceablePairs when both counts have
\* been lowered to the table t: condition (p1), the test against the pairs
\* chosen so far, and the push.
FindChoice(t, chosen, pair, count) ==
  IF ~W64Less(W64Add(t.freq[Len(chosen)].second, W64(3)), W64(count))
    THEN [table |-> IncreaseBoth(t, FirstOf(pair), SecondOf(pair), W64(count)),
          pairs |-> chosen, stop |-> TRUE]
  ELSE IF Conflicts(chosen, FirstOf(pair), SecondOf(pair))
    THEN [table |-> IncreaseBoth(t, FirstOf(pair), SecondOf(pair), W64(count)),
          pairs |-> chosen, stop |-> FALSE]
  ELSE [table |-> [freq |-> t.freq, loc |-> t.loc],
        pairs |-> Append(chosen, [first |-> pair, second |-> count]),
        stop |-> FALSE]

\* An iteration that does not give back to the first byte what the first
\* Decrease took when the second Decrease fails.
FindSecondNotRestored(t, chosen, pair, count) ==
  IF ~Decrease(t.freq, t.loc, SecondOf(pair), W64(count)).ret
    THEN [table |-> [freq |-> t.freq, loc |-> t.loc],
          pairs |-> chosen, stop |-> FALSE]
    ELSE FindChoice(Decrease(t.freq, t.loc, SecondOf(pair), W64(count)),
                    chosen, pair, count)

\* An iteration past the first Decrease, which left the table t.
FindSecond(t, chosen, pair, count) ==
  IF ~Decrease(t.freq, t.loc, SecondOf(pair), W64(count)).ret
    THEN [table |-> Increase(t.freq, t.loc, FirstOf(pair), W64(count)),
          pairs |-> chosen, stop |-> FALSE]
    ELSE FindChoice(Decrease(t.freq, t.loc, SecondOf(pair), W64(count)),
                    chosen, pair, count)

\* One iteration of the loop of FindReplaceablePairs on the pair at
\* current_pair: [table, pairs, stop], stop being true at the break.
FindIteration(freq, loc, chosen, pair, count) ==
  IF FirstOf(pair) = SecondOf(pair)
       \/ ~Decrease(freq, loc, FirstOf(pair), W64(count)).ret
    THEN [table |-> [freq |-> freq, loc |-> loc], pairs |-> chosen,
          stop |-> FALSE]
    ELSE FindSecond(Decrease(freq, loc, FirstOf(pair), W64(count)),
                    chosen, pair, count)

\* The pairs that partial_sort can have put at current_pair: of the pairs not
\* yet passed, those of the greatest count; a pair that does not occur once
\* the pairs that occur are all passed.
PairsAbsent == {PairOf(0, 1), PairOf(1, 0), PairOf(255, 255)}

PairsAtCurrent(pairs, seen) ==
  IF DOMAIN pairs \ seen = {}
    THEN {pair \in PairsAbsent : pair \notin seen}
    ELSE {pair \in DOMAIN pairs \ seen :
            \A o \in DOMAIN pairs \ seen : pairs[o] <= pairs[pair]}

\* FindReplaceablePairs sorts kStep more pairs whenever current_pair comes to
\* the end of the sorted part of pair_freqs, which has kPairTable entries.
kStep == 256
kPairTable == 65536

\* limit after the test at the head of the loop.
LimitAfter(limit, current) ==
  IF current + 1 >= limit THEN limit + kStep ELSE limit

\* One iteration of the loop of FindReplaceablePairs; the assertion on limit
\* ends the program unless NDEBUG is defined.
FindReplaceablePairsStep ==
  /\ pc = "find"
  /\ Len(replaceable_pairs) < kMaxPairs
  /\ cp_limit' = LimitAfter(cp_limit, current_pair)
  /\ IF cp_limit' >= kPairTable /\ ~ndebug
       THEN /\ pc' = "aborted"
            /\ UNCHANGED <<freq_, location_, replaceable_pairs, cp_seen,
                           current_pair>>
       ELSE \E pair \in PairsAtCurrent(pair_freq, cp_seen) :
              LET r == FindIteration(freq_, location_, replaceable_pairs, pair,
                                     PairCount(pair_freq, pair))
              IN /\ freq_' = r.table.freq
                 /\ location_' = r.table.loc
                 /\ replaceable_pairs' = r.pairs
                 /\ cp_seen' = cp_seen \cup {pair}
                 /\ current_pair' = IF r.stop THEN current_pair
                                    ELSE current_pair + 1
                 /\ pc' = IF r.stop \/ Len(r.pairs) >= kMaxPairs
                            THEN "found" ELSE "find"
  /\ UNCHANGED <<ftCallVars, dzVars, coderVars, afterCpVars, cp_block, cp_from, pair_freq,
                 free_symbols, escape_index, cp_temp, position, wr_i,
                 total_size>>

\* The pairs of equal bytes that do not occur and are not yet passed, and the
\* n least of a set of pairs.
EqualPairsAbsent(pairs, seen) ==
  {PairOf(b, b) : b \in 0..255} \ (DOMAIN pairs \cup seen)

LeastPairs(S, n) == {e \in S : Cardinality({x \in S : x < e}) < n}

\* The iterations of FindReplaceablePairs from one call of partial_sort up to
\* the next, when partial_sort has put the pairs of equal bytes that do not
\* occur in front of the other pairs that do not: each is passed at line 250
\* with ++current_pair, and the table is not touched.
FindReplaceablePairsSkipEqual ==
  /\ pc = "find"
  /\ Len(replaceable_pairs) < kMaxPairs
  /\ DOMAIN pair_freq \subseteq cp_seen
  /\ EqualPairsAbsent(pair_freq, cp_seen) # {}
  /\ cp_limit' = LimitAfter(cp_limit, current_pair)
  /\ IF cp_limit' >= kPairTable /\ ~ndebug
       THEN /\ pc' = "aborted"
            /\ UNCHANGED <<cp_seen, current_pair>>
       ELSE LET absent == EqualPairsAbsent(pair_freq, cp_seen)
                room   == cp_limit' - 1 - current_pair
                passed == IF Cardinality(absent) < room
                            THEN Cardinality(absent) ELSE room
            IN /\ cp_seen' = cp_seen \cup LeastPairs(absent, passed)
               /\ current_pair' = current_pair + passed
               /\ pc' = "find"
  /\ UNCHANGED <<freqVars, dzVars, coderVars, afterCpVars, cp_block, cp_from,
                 pair_freq, replaceable_pairs, free_symbols, escape_index,
                 cp_temp, position, wr_i, total_size>>

\* A count of the table as a number; the counts of a block are far below
\* 2^31.
W64Value(x) == x[3] * 65536 + x[4]

\* suitable_pairs[i].second - (*freqs)[i] - 3
PairUtility(freq, pairs, i) ==
  pairs[i + 1].second - W64Value(freq[i].second) - 3

\* EscapeCharIndex: the sum of its first loop over the indexes i..(size - 1).
RECURSIVE UtilityFrom(_, _, _)
UtilityFrom(freq, pairs, i) ==
  IF i >= Len(pairs) THEN 0
  ELSE PairUtility(freq, pairs, i) + UtilityFrom(freq, pairs, i + 1)

\* EscapeCharIndex: its second loop, condition (p2), from the table t, the
\* utility and the index i: [table, index] at the return.
RECURSIVE EscapeLoop(_, _, _, _, _)
EscapeGivenUp(t, pairs, free, utility, i) ==
  EscapeLoop(t, pairs, free, utility - PairUtility(t.freq, pairs, i), i)

EscapeLoop(t, pairs, free, utility, i) ==
  IF utility <= W64Value(t.freq[i].second) /\ i > free
    THEN EscapeGivenUp(IncreaseBoth(t, FirstOf(pairs[i].first),
                                    SecondOf(pairs[i].first),
                                    W64(pairs[i].second)),
                       pairs, free, utility, i - 1)
    ELSE [table |-> t, index |-> i]

\* The escape index as CompressCommonPairs computes it, with the table that
\* EscapeCharIndex leaves.
EscapeCharIndex(freq, loc, pairs, free) ==
  IF Len(pairs) <= free
    THEN [table |-> [freq |-> freq, loc |-> loc], index |-> free]
    ELSE EscapeLoop([freq |-> freq, loc |-> loc], pairs, free,
                    UtilityFrom(freq, pairs, free), Len(pairs))

\* freqs.Key(255), the marker of a pair that is not replaced.
CommonByte(freq) == freq[255].first

EscapeByte(freq, free, escape) ==
  IF escape > free THEN freq[escape].first ELSE CommonByte(freq)

\* The number of the pairs that get a symbol: those of the first loop of the
\* header and, when symbols are freed, those below the escape index.
PairsReplaced(pairs, free, escape) ==
  IF free < escape THEN escape
  ELSE IF free < Len(pairs) THEN free ELSE Len(pairs)

\* The triples (new symbol, first byte, second byte) of the pairs 0..(n - 1).
RECURSIVE HeaderTriples(_, _, _)
HeaderTriples(freq, pairs, n) ==
  IF n = 0 THEN <<>>
  ELSE HeaderTriples(freq, pairs, n - 1)
         \o <<freq[n - 1].first, (pairs[n].first \div 256) % 256,
              pairs[n].first % 256>>

SymbolsInUse(pairs, free, escape) ==
  (IF free < Len(pairs) THEN free ELSE Len(pairs))
    + (IF free < escape THEN escape - free + 1 ELSE 0)

NewSymbols(pairs, free, escape) ==
  IF free = escape THEN 0 ELSE SymbolsInUse(pairs, free, escape) - free

\* The dummy byte that ends the triples of the header.
DummyByte(freq, pairs, free, escape) ==
  IF NewSymbols(pairs, free, escape) > 0 THEN freq[escape - 1].first
  ELSE IF SymbolsInUse(pairs, free, escape) > 0
    THEN freq[SymbolsInUse(pairs, free, escape) - 1].first
  ELSE (EscapeByte(freq, free, escape) + 1) % 256

\* The end of the header: the dummy byte and the escape byte, or the dummy
\* byte twice, and once more when no symbol is in use.
HeaderEnd(freq, pairs, free, escape) ==
  <<DummyByte(freq, pairs, free, escape)>>
    \o (IF free < escape THEN <<EscapeByte(freq, free, escape)>>
        ELSE IF SymbolsInUse(pairs, free, escape) = 0
          THEN <<DummyByte(freq, pairs, free, escape),
                 DummyByte(freq, pairs, free, escape)>>
        ELSE <<DummyByte(freq, pairs, free, escape)>>)

\* replacements[pair] as the two loops of the header leave it: the symbol of
\* a pair that is replaced, escape_byte in the rows of the freed symbols,
\* common_byte elsewhere.
Replacement(freq, pairs, free, escape, pair) ==
  IF \E k \in 1..PairsReplaced(pairs, free, escape) : pairs[k].first = pair
    THEN freq[(CHOOSE k \in 1..PairsReplaced(pairs, free, escape) :
                 pairs[k].first = pair) - 1].first
  ELSE IF free < escape
          /\ \E i \in free..escape : freq[i].first = FirstOf(pair)
    THEN EscapeByte(freq, free, escape)
  ELSE CommonByte(freq)

\* CompressCommonPairs from the return of FindReplaceablePairs to the call
\* of WriteReplacements: the escape index and the header.
CompressCommonPairsHeader ==
  /\ pc = "found"
  /\ LET e == EscapeCharIndex(freq_, location_, replaceable_pairs,
                              free_symbols)
     IN /\ freq_' = e.table.freq
        /\ location_' = e.table.loc
        /\ escape_index' = e.index
        /\ cp_temp' = HeaderTriples(e.table.freq, replaceable_pairs,
                                    PairsReplaced(replaceable_pairs,
                                                  free_symbols, e.index))
                        \o HeaderEnd(e.table.freq, replaceable_pairs,
                                     free_symbols, e.index)
  /\ position' = Len(cp_temp')
  /\ wr_i' = 1
  /\ pc' = "write"
  /\ UNCHANGED <<ftCallVars, dzVars, coderVars, afterCpVars, cp_block, cp_from, pair_freq,
                 cp_seen, current_pair, cp_limit, replaceable_pairs, free_symbols, total_size>>

\* from[i]; past the block it is a byte that nothing has written.
BytesUnwritten == {0, 97}

FromAt(data, i) ==
  IF i < Len(data) THEN {data[i + 1]} ELSE BytesUnwritten

\* WriteReplacements: what the end of the loop writes for the last byte.
LastBytes(byte, common_byte, escape_byte) ==
  IF byte = escape_byte /\ escape_byte # common_byte
    THEN <<escape_byte, byte>> ELSE <<byte>>

\* One iteration of the loop of WriteReplacements at i, cur being from[i],
\* next from[i + 1] and r replacements[pair]: the bytes written before the
\* assertion and after it, i, whether the loop is left, and the value of the
\* assertion.
WriteIteration(data, i, cur, next, r, common_byte, escape_byte) ==
  IF r # common_byte /\ r # escape_byte
    THEN IF i = Len(data) - 1
           THEN [out |-> <<r>>, last |-> <<>>, i |-> i, done |-> TRUE,
                 asserted |-> TRUE]
         ELSE IF i + 1 >= Len(data) - 1
           THEN [out |-> <<r>>,
                 last |-> LastBytes(next, common_byte, escape_byte),
                 i |-> i + 1, done |-> TRUE,
                 asserted |-> (i + 1 = Len(data) - 1)]
         ELSE [out |-> <<r>>, last |-> <<>>, i |-> i + 2, done |-> FALSE,
               asserted |-> TRUE]
  ELSE IF i >= Len(data) - 1
    THEN [out |-> IF r = common_byte THEN <<data[i]>>
                  ELSE <<escape_byte, data[i]>>,
          last |-> LastBytes(cur, common_byte, escape_byte),
          i |-> i, done |-> TRUE, asserted |-> (i = Len(data) - 1)]
  ELSE [out |-> IF r = common_byte THEN <<data[i]>>
                ELSE <<escape_byte, data[i]>>,
        last |-> <<>>, i |-> i + 1, done |-> FALSE, asserted |-> TRUE]

\* One iteration of the loop of WriteReplacements, which writes to temp
\* behind the header. A failed assertion ends the program unless NDEBUG is
\* defined.
WriteReplacementsStep ==
  /\ pc = "write"
  /\ \E cur \in FromAt(cp_from, wr_i), next \in FromAt(cp_from, wr_i + 1) :
       LET w == WriteIteration(cp_from, wr_i, cur, next,
                               Replacement(freq_, replaceable_pairs,
                                           free_symbols, escape_index,
                                           PairOf(cp_from[wr_i], cur)),
                               CommonByte(freq_),
                               EscapeByte(freq_, free_symbols, escape_index))
       IN /\ wr_i' = w.i
          /\ IF ~w.asserted /\ ~ndebug
               THEN /\ cp_temp' = cp_temp \o w.out
                    /\ pc' = "aborted"
               ELSE /\ cp_temp' = cp_temp \o w.out \o w.last
                    /\ pc' = IF w.done THEN "written" ELSE "write"
  /\ UNCHANGED <<freqVars, dzVars, coderVars, afterCpVars, cp_block, cp_from,
                 pair_freq, cp_seen, current_pair, cp_limit, replaceable_pairs, free_symbols,
                 escape_index, position, total_size>>

\* CompressCommonPairs after WriteReplacements: the size, its assertion and
\* the copy of temp to the block.
CompressCommonPairsEnd ==
  /\ pc = "written"
  /\ total_size' = Len(cp_temp)
  /\ IF Len(cp_temp) > Len(cp_from) + 3 /\ ~ndebug
       THEN pc' = "aborted" /\ cp_from' = cp_from
       ELSE pc' = "replaced" /\ cp_from' = cp_temp
  /\ UNCHANGED <<freqVars, dzVars, coderVars, afterCpVars, cp_block, pair_freq,
                 cp_seen, current_pair, cp_limit, replaceable_pairs, free_symbols, escape_index,
                 cp_temp, position, wr_i>>


\* The sequence p taken n times.
RECURSIVE Repeat(_, _)
Repeat(p, n) == IF n = 0 THEN <<>> ELSE p \o Repeat(p, n - 1)

\* Every block of up to MaxBlock bytes over two symbols.
ShortBlocks == UNION {[1..n -> {97, 98}] : n \in 1..MaxBlock}

\* A pair worth replacing with up to two bytes before it and behind it.
AroundPairs ==
  {before \o Repeat(<<97, 98>>, 4) \o behind :
   before, behind \in UNION {[1..n -> {97, 98}] : n \in 0..2}}

\* Blocks of a few symbols in which two pairs are worth replacing, with no
\* byte in common, with a byte in the same place, and with the second byte of
\* one as the first byte of the other.
PairBlocks ==
  {Repeat(<<97, 98>>, 5) \o Repeat(<<99, 100>>, 5),
   Repeat(<<97, 98>>, 5) \o Repeat(<<99, 98>>, 5),
   Repeat(<<97, 98>>, 6) \o Repeat(<<97, 99>>, 5),
   Repeat(<<97, 98>>, 6) \o Repeat(<<98, 99>>, 5) \o <<98>>,
   Repeat(<<97, 98, 99>>, 6)}

\* Blocks in which no symbol is free: the bytes 2..255 twice, a pair worth
\* replacing, a pair that is not, and an end made of the bytes 0 and 1, which
\* are the rarest.
BytesFrom2 == [i \in 1..254 |-> i + 1]

FullBlocks ==
  {BytesFrom2 \o BytesFrom2 \o Repeat(<<100, 200>>, 8)
     \o Repeat(<<50, 150>>, 3) \o end :
   end \in {<<1, 1, 0>>, <<1, 0, 1>>, <<0, 7, 1, 1>>}}

PairsInit ==
  /\ pc = "block"
  /\ cp_block \in ShortBlocks \cup AroundPairs \cup PairBlocks \cup FullBlocks
  /\ cp_from = cp_block
  /\ ndebug \in BOOLEAN
  /\ pair_freq = <<>>
  /\ cp_seen = {}
  /\ current_pair = 0
  /\ cp_limit = 0
  /\ replaceable_pairs = <<>>
  /\ free_symbols = 0
  /\ escape_index = 0
  /\ cp_temp = <<>>
  /\ position = 0
  /\ wr_i = 0
  /\ total_size = 0
  /\ AfterCpIdle
  /\ FreqIdle
  /\ DzIdle
  /\ m_in = <<>>
  /\ in_pos = 0
  /\ in_bit = 0
  /\ m_out = <<>>
  /\ PackIdle
  /\ RpiIdle
  /\ EncIdle
  /\ RbhIdle
  /\ TrailerIdle
  /\ PayloadIdle

PairsNext ==
  \/ CompressCommonPairsBegin
  \/ FindReplaceablePairsStep
  \/ FindReplaceablePairsSkipEqual
  \/ CompressCommonPairsHeader
  \/ WriteReplacementsStep
  \/ CompressCommonPairsEnd

SpecPairs == PairsInit /\ [][PairsNext]_vars

\* C13: of the pairs that FindReplaceablePairs has chosen, no byte is the
\* first byte of one and the second byte of one, a pair taken with itself
\* included.
C13_PairsConflictFree ==
  \A k, l \in 1..Len(replaceable_pairs) :
    FirstOf(replaceable_pairs[k].first) # SecondOf(replaceable_pairs[l].first)

\* FindReplaceablePairs has returned two pairs, after it refused one that
\* was in conflict with the first.
C13_Witness ==
  /\ pc = "found"
  /\ Len(replaceable_pairs) = 2
  /\ \E pair \in cp_seen :
       /\ PairCount(pair_freq, pair) > replaceable_pairs[2].second
       /\ Conflicts(SubSeq(replaceable_pairs, 1, 1), FirstOf(pair),
                    SecondOf(pair))


\* What the header of a result records: the number of its triples, whether
\* a byte is the escape byte, that byte, and the pair of a new symbol.
HeaderPairs(result, size) == (size - 2) \div 3
HeaderEscapes(result, size) == result[size] # result[size - 1]
HeaderEscapeByte(result, size) == result[size]
HeaderIsSymbol(result, size, byte) ==
  \E k \in 1..HeaderPairs(result, size) : result[3 * k - 2] = byte
HeaderPairOf(result, size, byte) ==
  LET k == CHOOSE k \in 1..HeaderPairs(result, size) : result[3 * k - 2] = byte
  IN <<result[3 * k - 1], result[3 * k]>>

\* The number of escape bytes in a row just before the byte j of the payload.
RECURSIVE EscapesBefore(_, _, _)
EscapesBefore(payload, escape_byte, j) ==
  IF j = 1 \/ payload[j - 1] # escape_byte THEN 0
  ELSE 1 + EscapesBefore(payload, escape_byte, j - 1)

\* What the byte j of the payload expands to: itself behind an escape byte,
\* nothing when it is the escape byte, its pair when it is a new symbol, and
\* itself otherwise.
ExpandByte(result, size, payload, j) ==
  IF HeaderEscapes(result, size)
       /\ EscapesBefore(payload, HeaderEscapeByte(result, size), j) % 2 = 1
    THEN <<payload[j]>>
  ELSE IF HeaderEscapes(result, size)
            /\ payload[j] = HeaderEscapeByte(result, size)
    THEN <<>>
  ELSE IF HeaderIsSymbol(result, size, payload[j])
    THEN HeaderPairOf(result, size, payload[j])
  ELSE <<payload[j]>>

\* The expansion of the bytes lo..hi of the payload, by halves.
RECURSIVE ExpandRange(_, _, _, _, _)
ExpandRange(result, size, payload, lo, hi) ==
  IF lo > hi THEN <<>>
  ELSE IF lo = hi THEN ExpandByte(result, size, payload, lo)
  ELSE ExpandRange(result, size, payload, lo, (lo + hi) \div 2)
         \o ExpandRange(result, size, payload, (lo + hi) \div 2 + 1, hi)

\* The expansion of the payload that follows a header of size bytes.
Expand(result, size) ==
  ExpandRange(result, size, SubSeq(result, size + 1, Len(result)), 1,
              Len(result) - size)

\* C14: when CompressCommonPairs has returned for a block of at least two
\* bytes, the expansion of the payload by the rules of the header is the
\* block.
C14_ExpansionIsBlock ==
  (pc = "replaced" /\ Len(cp_block) >= 2)
    => Expand(SubSeq(cp_from, 1, total_size), position) = cp_block

\* C15: CompressCommonPairs, called on a block that is not empty, returns,
\* and with a size of at most length + 3.
C15_SizeWithinBuffer ==
  pc \in {"replaced", "aborted"}
    => pc = "replaced" /\ total_size <= Len(cp_block) + 3

\* On a block of at least two bytes no assertion fails and temp, of
\* length + 3 bytes, is never written past its end.
C15_LongerBlocksFit ==
  Len(cp_block) >= 2
    => pc # "aborted" /\ Len(cp_temp) <= Len(cp_block) + 3


\* The expansion is the block whenever the last byte of the block is not one
\* of the new symbols of the header.
C14_ExpansionUnlessLastIsSymbol ==
  (/\ pc = "replaced"
   /\ Len(cp_block) >= 2
   /\ ~HeaderIsSymbol(cp_from, position, cp_block[Len(cp_block)]))
    => Expand(SubSeq(cp_from, 1, total_size), position) = cp_block

\* A block has been rewritten with a pair replaced and a byte escaped.
C14_WitnessEscaped ==
  /\ pc = "replaced"
  /\ free_symbols < escape_index
  /\ Expand(SubSeq(cp_from, 1, total_size), position) = cp_block


\* The count that the table holds for a byte.
CountOf(freq, loc, sym) == W64Value(freq[loc[sym]].second)

\* The sum of the frequencies of the pairs 1..k of chosen that hold sym.
RECURSIVE ChosenWith(_, _, _)
ChosenWith(chosen, k, sym) ==
  IF k = 0 THEN 0
  ELSE ChosenWith(chosen, k - 1, sym)
         + (IF sym \in {FirstOf(chosen[k].first), SecondOf(chosen[k].first)}
              THEN chosen[k].second ELSE 0)

\* C28: while FindReplaceablePairs runs and when it has returned, the count
\* of every byte in the table is its count in the block less the frequencies
\* of the chosen pairs that hold it: a candidate that is not chosen leaves
\* every count as it was, a chosen pair lowers its two bytes by its frequency.
C28_CountsLessChosen ==
  pc \in {"find", "found"} =>
    \A sym \in 0..255 :
      CountOf(freq_, location_, sym)
        = ByteFrequencies(cp_block)[sym]
            - ChosenWith(replaceable_pairs, Len(replaceable_pairs), sym)

\* FindReplaceablePairs has returned a pair and has passed a pair that occurs
\* and was not chosen because the count of its second byte was too low, after
\* the count of its first byte had been lowered.
C28_Witness ==
  /\ pc = "found"
  /\ Len(replaceable_pairs) > 0
  /\ \E pair \in cp_seen \cap DOMAIN pair_freq :
       /\ FirstOf(pair) # SecondOf(pair)
       /\ \A k \in 1..Len(replaceable_pairs) : replaceable_pairs[k].first # pair
       /\ CountOf(freq_, location_, FirstOf(pair)) >= pair_freq[pair]
       /\ CountOf(freq_, location_, SecondOf(pair)) < pair_freq[pair]
       /\ CountOf(freq_, location_, FirstOf(pair))
            = ByteFrequencies(cp_block)[FirstOf(pair)]


C30_ReadsWithinBlock ==
  /\ pc = "write" => wr_i <= Len(cp_block) - 1
  /\ ~(pc = "aborted" /\ total_size = 0)

\* For a block of at least two bytes the index stays within the block and
\* the assertion of WriteReplacements holds.
C30_LongerBlocksReadWithin ==
  Len(cp_block) >= 2 =>
    /\ pc = "write" => wr_i <= Len(cp_block) - 1
    /\ ~(pc = "aborted" /\ total_size = 0)

\* The block of one byte: the loop begins at i = 1 and reads from[1], which
\* is past the block, and with the assertions compiled out that byte is
\* written behind the byte of the block.
C30_WitnessPastBlock ==
  /\ pc = "written"
  /\ Len(cp_block) = 1
  /\ wr_i = 1
  /\ Len(cp_temp) = position + 2


-----------------------------------------------------------------------------
(* SequenceHeap of the replacer of long runs: the triples (symbol, length,  *)
(* frequency) as a heap h = [seqs, locations, last], with the slot of       *)
(* every (symbol, length).                                                   *)

\* The run lengths of the triples are 2^1 .. 2^MaxRunLog.
MaxRunLog == 3

\* A value of 32 bits without sign is held as the number below 2^31 that it
\* is, or as that value less 2^32, which is negative; sums, differences and
\* products of small numbers are then the machine's. U32Less is its order.
U32Less(x, y) == IF (x < 0) = (y < 0) THEN x < y ELSE y < 0

\* CompareTripleDesc, operator> and operator< of triples.
CompareTripleDesc(t1, t2) ==
  U32Less((t2.length - 1) * t2.frequency, (t1.length - 1) * t1.frequency)
TripleGreater(t1, t2) == CompareTripleDesc(t1, t2)
TripleLess(t1, t2) == CompareTripleDesc(t2, t1)

\* The key of the triple in slot i in locations_.
KeyOfSlot(seqs, i) == <<seqs[i].symbol, seqs[i].length>>

\* The two swaps of Heapify: the entries of locations_ of the triples in the
\* slots i and j, and the triples themselves.
SwapSlots(h, i, j) ==
  [seqs |-> [h.seqs EXCEPT ![i] = h.seqs[j], ![j] = h.seqs[i]],
   locations |-> [h.locations EXCEPT
                    ![KeyOfSlot(h.seqs, i)] = h.locations[KeyOfSlot(h.seqs, j)],
                    ![KeyOfSlot(h.seqs, j)] = h.locations[KeyOfSlot(h.seqs, i)]],
   last |-> h.last]

\* SequenceHeap::Heapify
RECURSIVE Heapify(_, _)
HeapifyDown(h, i, largest) ==
  IF TripleLess(h.seqs[i], h.seqs[largest])
    THEN Heapify(SwapSlots(h, i, largest), largest)
    ELSE h

Heapify(h, i) ==
  IF 2 * i + 2 <= h.last
    THEN HeapifyDown(h, i, IF TripleGreater(h.seqs[2 * i + 1], h.seqs[2 * i + 2])
                             THEN 2 * i + 1 ELSE 2 * i + 2)
  ELSE IF 2 * i + 1 = h.last /\ TripleLess(h.seqs[i], h.seqs[2 * i + 1])
    THEN SwapSlots(h, i, 2 * i + 1)
  ELSE h

\* SequenceHeap::BuildMaxHeap from the slot i down to 0; it starts at
\* parent(last_), and the division of the code rounds towards 0.
RECURSIVE BuildMaxHeapFrom(_, _)
BuildMaxHeapFrom(h, i) ==
  IF i < 0 THEN h ELSE BuildMaxHeapFrom(Heapify(h, i), i - 1)

BuildMaxHeap(h) ==
  BuildMaxHeapFrom(h, IF h.last >= 1 THEN (h.last - 1) \div 2
                      ELSE IF h.last = 0 THEN 0 ELSE -1)

\* SequenceHeap::InitLocations: the first slot of every (symbol, length).
HeapInitLocations(seqs) ==
  [key \in {KeyOfSlot(seqs, i) : i \in DOMAIN seqs} |->
     CHOOSE i \in DOMAIN seqs :
       /\ KeyOfSlot(seqs, i) = key
       /\ \A j \in DOMAIN seqs : KeyOfSlot(seqs, j) = key => i <= j]

\* SequenceHeap::SequenceHeap(sequences), the triples in the slots 0..n-1.
SequenceHeap(sequences) ==
  BuildMaxHeap([seqs |-> [i \in 0..(Len(sequences) - 1) |-> sequences[i + 1]],
                locations |-> HeapInitLocations(
                                [i \in 0..(Len(sequences) - 1) |-> sequences[i + 1]]),
                last |-> Len(sequences) - 1])

\* SequenceHeap::Delete
HeapDeleted(h, index) ==
  Heapify([seqs |-> [h.seqs EXCEPT ![index] = h.seqs[h.last],
                                   ![h.last] = h.seqs[index]],
           locations |-> [h.locations EXCEPT
                            ![KeyOfSlot(h.seqs, index)] = h.last,
                            ![KeyOfSlot(h.seqs, h.last)] = index],
           last |-> h.last - 1],
          index)

HeapDelete(h, index) ==
  IF index > h.last THEN h ELSE HeapDeleted(h, index)

\* SequenceHeap::Decrease: it returns at once for a slot up to last_.
HeapDecrease(h, index, value) ==
  IF index <= h.last THEN h
  ELSE Heapify([h EXCEPT !.seqs[index].frequency = @ - value], index)

\* One iteration of the loop of DeleteMax, on the entry of locations_ for
\* the length len of the symbol of max.
DeleteMaxVisit(h, max, len) ==
  IF len >= max.length
    THEN HeapDelete(h, h.locations[<<max.symbol, len>>])
    ELSE HeapDecrease(h, h.locations[<<max.symbol, len>>],
                      (max.length \div len) * max.frequency)

\* The assertion of Decrease in that iteration.
DeleteMaxVisitAsserted(h, max, len) ==
  \/ len >= max.length
  \/ h.locations[<<max.symbol, len>>] <= h.last
  \/ ~U32Less(h.seqs[h.locations[<<max.symbol, len>>]].frequency,
              (max.length \div len) * max.frequency)

\* The loop of DeleteMax over the lengths of the symbol of max, in ascending
\* order from len on.
RECURSIVE DeleteMaxFrom(_, _, _)
DeleteMaxFrom(h, max, lens) ==
  IF lens = {} THEN h
  ELSE LET len == CHOOSE l \in lens : \A o \in lens : l <= o
       IN DeleteMaxFrom(DeleteMaxVisit(h, max, len), max, lens \ {len})

\* Whether the assertions of the loop of DeleteMax hold.
RECURSIVE DeleteMaxAssertedFrom(_, _, _)
DeleteMaxAssertedFrom(h, max, lens) ==
  IF lens = {} THEN TRUE
  ELSE LET len == CHOOSE l \in lens : \A o \in lens : l <= o
       IN /\ DeleteMaxVisitAsserted(h, max, len)
          /\ DeleteMaxAssertedFrom(DeleteMaxVisit(h, max, len), max,
                                   lens \ {len})

DeleteMaxAsserted(h) ==
  DeleteMaxAssertedFrom(h, h.seqs[0],
                        {key[2] : key \in {k \in DOMAIN h.locations :
                                             k[1] = h.seqs[0].symbol}})

\* SequenceHeap::DeleteMax: the heap it leaves; it returns seqs_[0].
DeleteMax(h) ==
  DeleteMaxFrom(h, h.seqs[0],
                {key[2] : key \in {k \in DOMAIN h.locations :
                                     k[1] = h.seqs[0].symbol}})

\* The vectors of triples that CompressLongRuns builds: for some symbols and
\* some lengths a frequency, in the order of the symbols and of the lengths.
RunSymbols == {97, 98}
RunLengths == {Pow2(k) : k \in 1..MaxRunLog}
RunFrequencies == {1, 4}

RECURSIVE TriplesOf(_, _)
TriplesOf(f, keys) ==
  IF keys = {} THEN <<>>
  ELSE LET key == CHOOSE k \in keys :
                    \A o \in keys : k[1] < o[1] \/ (k[1] = o[1] /\ k[2] <= o[2])
       IN <<[symbol |-> key[1], length |-> key[2], frequency |-> f[key]]>>
            \o TriplesOf(f, keys \ {key})

RunVectors ==
  {TriplesOf(f, DOMAIN f) :
   f \in UNION {[keys -> RunFrequencies] :
                keys \in SUBSET (RunSymbols \X RunLengths) \ {{}}}}

\* Vectors of three symbols with the lengths 2, 4 and 8: a triple for every
\* symbol and length but one, with a frequency of 1 or of 9.
WideKeys == {97, 98, 99} \X {2, 4, 8}

WideRunVectors ==
  {TriplesOf(f, DOMAIN f) :
     f \in UNION {[WideKeys \ {key} -> {1, 9}] : key \in WideKeys}}

\* A call of DeleteMax on a heap that holds a triple.
HeapDeleteMax ==
  /\ pc = "heap"
  /\ last_ >= 0
  /\ hp_max' = seqs_[0]
  /\ LET h == DeleteMax([seqs |-> seqs_, locations |-> locations_,
                         last |-> last_])
     IN /\ seqs_' = h.seqs
        /\ locations_' = h.locations
        /\ last_' = h.last
  /\ hp_calls' = hp_calls + 1
  /\ UNCHANGED <<pc, freqVars, dzVars, coderVars, cpVars, afterHpVars>>

HeapInit ==
  /\ pc = "heap"
  /\ \E runs \in RunVectors \cup WideRunVectors :
       LET h == SequenceHeap(runs)
       IN /\ seqs_ = h.seqs
          /\ locations_ = h.locations
          /\ last_ = h.last
  /\ hp_calls = 0
  /\ hp_max = <<>>
  /\ AfterHpIdle
  /\ ndebug = FALSE
  /\ CpIdle
  /\ FreqIdle
  /\ DzIdle
  /\ m_in = <<>>
  /\ in_pos = 0
  /\ in_bit = 0
  /\ m_out = <<>>
  /\ PackIdle
  /\ RpiIdle
  /\ EncIdle
  /\ RbhIdle
  /\ TrailerIdle
  /\ PayloadIdle

HeapNext == HeapDeleteMax

SpecHeap == HeapInit /\ [][HeapNext]_vars

\* The triples in the heap, and the one of a symbol and a length.
LiveTriples(seqs, last) == {seqs[i] : i \in 0..last}
LiveOf(seqs, last, symbol, length) ==
  {t \in LiveTriples(seqs, last) : t.symbol = symbol /\ t.length = length}

\* C16: a call of DeleteMax that pops (b, L, f) takes every other triple of b
\* with a length up to L out of the heap, leaves every triple of b with a
\* length L' above L in it with its frequency lowered by (L' div L) * f, and
\* leaves the triples of the other symbols as they are.
C16_DeleteMaxContract ==
  [][last_ >= 0 =>
       \A t \in LiveTriples(seqs_, last_) :
         IF t.symbol # seqs_[0].symbol
           THEN t \in LiveTriples(seqs_', last_')
         ELSE IF t.length <= seqs_[0].length
           THEN LiveOf(seqs_', last_', t.symbol, t.length) = {}
         ELSE LiveOf(seqs_', last_', t.symbol, t.length)
                = {[t EXCEPT !.frequency =
                      @ - (t.length \div seqs_[0].length) * seqs_[0].frequency]}
    ]_vars

\* No triple in the heap has a greater profit than its parent.
HeapOrdered ==
  \A i \in 1..last_ : ~TripleLess(seqs_[(i - 1) \div 2], seqs_[i])

\* locations_ gives the slot of every triple in the heap.
LocationsOfLive ==
  \A i \in 0..last_ : locations_[KeyOfSlot(seqs_, i)] = i

\* The triple that the next call of DeleteMax returns, seqs_[0], has the
\* greatest profit of the triples in the heap.
RootIsMaximal ==
  \A i \in 0..last_ : ~TripleLess(seqs_[0], seqs_[i])

\* C24: after the construction of the heap and after every call of
\* DeleteMax the triples seqs_[0..last_] are a max-heap under the profit
\* (length - 1) * frequency, locations_ gives the slot of every one of them,
\* and so the next call of DeleteMax returns a triple of the greatest profit.
C24_HeapInvariant ==
  pc = "heap" => HeapOrdered /\ LocationsOfLive /\ RootIsMaximal

\* What holds of the heap: it is a max-heap after its construction, and
\* locations_ gives the slot of every triple in it after every call.
C24_LocationsAndFirstHeap ==
  pc = "heap" =>
    /\ LocationsOfLive
    /\ hp_calls = 0 => HeapOrdered /\ RootIsMaximal

\* Calls of DeleteMax have left a triple at the root that is not of the
\* greatest profit.
C24_WitnessNotMaximal ==
  /\ pc = "heap"
  /\ hp_calls > 0
  /\ last_ >= 2
  /\ ~RootIsMaximal

\* What DeleteMax does: the triples of b with a length from L on leave the
\* heap, and every other triple stays in it as it is.
C16_DeletesFromLengthOn ==
  [][last_ >= 0 =>
       LiveTriples(seqs_', last_')
         = {t \in LiveTriples(seqs_, last_) :
              t.symbol # seqs_[0].symbol \/ t.length < seqs_[0].length}
    ]_vars


-----------------------------------------------------------------------------
(* The replacer of long runs: CompressLongRuns and the routines of the      *)
(* namespace longruns. A block is held as the list of its maximal runs       *)
(* [symbol, length], and what is written behind the header as a list of      *)
(* pieces [bytes, times]: the bytes, times over.                             *)

\* The number of maximal runs of a block.
MaxRuns == 3

kMaxLenOfSeq == 32768

\* FindReplaceableRuns stops at this many runs.
kMaxRuns == 254

\* A run as the routines meet it: cut after every kMaxLenOfSeq bytes.
RECURSIVE ChunksOfRun(_, _)
ChunksOfRun(symbol, length) ==
  IF length <= kMaxLenOfSeq THEN <<[symbol |-> symbol, length |-> length]>>
  ELSE <<[symbol |-> symbol, length |-> kMaxLenOfSeq]>>
         \o ChunksOfRun(symbol, length - kMaxLenOfSeq)

\* The runs lo..hi of a block, by halves.
RECURSIVE RunChunksFrom(_, _, _)
RunChunksFrom(block, lo, hi) ==
  IF lo > hi THEN <<>>
  ELSE IF lo = hi THEN ChunksOfRun(block[lo].symbol, block[lo].length)
  ELSE RunChunksFrom(block, lo, (lo + hi) \div 2)
         \o RunChunksFrom(block, (lo + hi) \div 2 + 1, hi)

RunChunks(block) == RunChunksFrom(block, 1, Len(block))

\* MostSignificantBit of a number below 2^16: its highest bit alone.
RECURSIVE MostSignificantBit(_)
MostSignificantBit(n) == IF n < 2 THEN n ELSE 2 * MostSignificantBit(n \div 2)

\* UpdateFreqs: its loop, from what is left of the length.
RECURSIVE UpdateFreqsFrom(_, _, _, _)
UpdateFreqsAt(rf, key, count) ==
  IF key \in DOMAIN rf THEN [rf EXCEPT ![key] = @ + count]
  ELSE rf @@ (key :> count)

UpdateFreqsFrom(rf, symbol, original, length) ==
  IF length = 0 THEN rf
  ELSE UpdateFreqsFrom(UpdateFreqsAt(rf, <<symbol, MostSignificantBit(length)>>,
                                     original \div MostSignificantBit(length)),
                       symbol, original, length - MostSignificantBit(length))

UpdateFreqs(rf, symbol, length) ==
  UpdateFreqsFrom(rf, symbol, length - (length % 2), length - (length % 2))

\* ComputeRunFrequencies: what the call of UpdateFreqs for one run adds to
\* run_freq, and what the runs lo..hi add at a key, by halves.
RunFrequenciesOf(chunk) ==
  IF chunk.length > 1 THEN UpdateFreqs(<<>>, chunk.symbol, chunk.length)
  ELSE <<>>

RECURSIVE RunFrequenciesFrom(_, _, _, _)
RunFrequenciesFrom(chunks, key, lo, hi) ==
  IF lo > hi THEN 0
  ELSE IF lo = hi
    THEN IF key \in DOMAIN RunFrequenciesOf(chunks[lo])
           THEN RunFrequenciesOf(chunks[lo])[key] ELSE 0
  ELSE RunFrequenciesFrom(chunks, key, lo, (lo + hi) \div 2)
         + RunFrequenciesFrom(chunks, key, (lo + hi) \div 2 + 1, hi)

\* ComputeRunFrequencies: run_freq; the run at the end of the block is not
\* counted.
RunFrequenciesOfChunks(chunks) ==
  [key \in UNION {DOMAIN RunFrequenciesOf(chunks[k]) :
                    k \in 1..(Len(chunks) - 1)} |->
     RunFrequenciesFrom(chunks, key, 1, Len(chunks) - 1)]

ComputeRunFrequencies(block) == RunFrequenciesOfChunks(RunChunks(block))

\* ComputeRunFrequencies: the count of every byte.
RECURSIVE ByteCountFrom(_, _, _)
ByteCountFrom(block, runs, symbol) ==
  IF runs = {} THEN 0
  ELSE LET k == CHOOSE r \in runs : TRUE
       IN block[k].length + ByteCountFrom(block, runs \ {k}, symbol)

RunByteFrequencies(block) ==
  [symbol \in 0..255 |->
     ByteCountFrom(block, {k \in 1..Len(block) : block[k].symbol = symbol},
                   symbol)]

\* A value of 32 bits without sign as a count of 64 bits.
W64OfU32(x) == IF x >= 0 THEN W64(x) ELSE W64Sub(<<0, 1, 0, 0>>, W64(-x))

\* CompressLongRuns up to the loop of FindReplaceableRuns: the counts, the
\* table, the vector of the runs and the heap built on it.
CompressLongRunsBegin ==
  /\ pc = "block_of_runs"
  /\ Len(lr_block) > 0
  /\ \E keys \in {KeysAscending, KeysDescending} :
       freq_' = FreqTable(RunByteFrequencies(lr_block), keys)
  /\ location_' = InitLocations(freq_')
  /\ free_symbols' = Cardinality({i \in 0..255 : freq_'[i].second = W64(0)})
  /\ run_freq' = ComputeRunFrequencies(lr_block)
  /\ LET h == SequenceHeap(TriplesOf(run_freq', DOMAIN run_freq'))
     IN /\ seqs_' = h.seqs
        /\ locations_' = h.locations
        /\ last_' = h.last
  /\ pc' = IF DOMAIN run_freq' = {} THEN "runs_found" ELSE "runs"
  /\ UNCHANGED <<ftCallVars, dzVars, coderVars, cp_block, cp_from, pair_freq,
                 cp_seen, current_pair, cp_limit, replaceable_pairs, escape_index, cp_temp, position,
                 wr_i, total_size, hp_calls, hp_max, lr_block, longest_runs,
                 lr_temp, lr_i, lr_last, afterLrVars>>

\* The table after freqs->Decrease, whatever it returns.
DecreaseOrNot(freq, loc, key, value) ==
  [freq |-> Decrease(freq, loc, key, value).freq,
   loc  |-> Decrease(freq, loc, key, value).loc]

\* One iteration of the loop of FindReplaceableRuns.
FindReplaceableRunsStep ==
  /\ pc = "runs"
  /\ hp_max' = seqs_[0]
  /\ hp_calls' = hp_calls + 1
  /\ LET h == [seqs |-> seqs_, locations |-> locations_, last |-> last_]
         best == seqs_[0]
         t == DecreaseOrNot(freq_, location_, best.symbol,
                            W64OfU32(best.length * best.frequency))
     IN IF ~DeleteMaxAsserted(h) /\ ~ndebug
          THEN /\ pc' = "aborted"
               /\ UNCHANGED <<seqs_, locations_, last_, freq_, location_,
                              longest_runs>>
          ELSE /\ seqs_' = DeleteMax(h).seqs
               /\ locations_' = DeleteMax(h).locations
               /\ last_' = DeleteMax(h).last
               /\ freq_' = t.freq
               /\ location_' = t.loc
               /\ IF ~W64Less(W64Add(t.freq[Len(longest_runs)].second, W64(3)),
                              W64OfU32((best.length - 1) * best.frequency))
                    THEN /\ longest_runs' = longest_runs
                         /\ pc' = "runs_found"
                    ELSE /\ longest_runs' = Append(longest_runs, best)
                         /\ pc' = IF Len(longest_runs') < kMaxRuns
                                      /\ Len(longest_runs')
                                           < Cardinality(DOMAIN seqs_)
                                    THEN "runs" ELSE "runs_found"
  /\ UNCHANGED <<ftCallVars, dzVars, coderVars, cpVars, lr_block, run_freq,
                 lr_temp, lr_i, lr_last, afterLrVars>>


\* (runs[i].length - 1) * runs[i].frequency - (*freqs)[i] - 3
RunUtility(freq, runs, i) ==
  (runs[i + 1].length - 1) * runs[i + 1].frequency
    - W64Value(freq[i].second) - 3

\* longruns::EscapeCharIndex: the sum of its first loop from the index i on.
RECURSIVE RunUtilityFrom(_, _, _)
RunUtilityFrom(freq, runs, i) ==
  IF i >= Len(runs) THEN 0
  ELSE RunUtility(freq, runs, i) + RunUtilityFrom(freq, runs, i + 1)

\* longruns::EscapeCharIndex: its second loop: [table, index] at the return.
RECURSIVE RunEscapeLoop(_, _, _, _, _)
RunEscapeGivenUp(t, runs, free, utility, i) ==
  RunEscapeLoop(t, runs, free, utility - RunUtility(t.freq, runs, i), i)

RunEscapeLoop(t, runs, free, utility, i) ==
  IF utility <= W64Value(t.freq[i].second) /\ i > free
    THEN RunEscapeGivenUp(Increase(t.freq, t.loc, runs[i].symbol,
                                   W64OfU32((runs[i].length - 1)
                                              * runs[i].frequency)),
                          runs, free, utility, i - 1)
    ELSE [table |-> t, index |-> i]

\* The escape index as CompressLongRuns computes it, with the table that
\* longruns::EscapeCharIndex leaves.
RunEscapeCharIndex(freq, loc, runs, free) ==
  IF Len(runs) <= free
    THEN [table |-> [freq |-> freq, loc |-> loc], index |-> free]
    ELSE RunEscapeLoop([freq |-> freq, loc |-> loc], runs, free,
                       RunUtilityFrom(freq, runs, free), Len(runs))

\* new_symbols, symbols_in_use and run_replacements of CompressLongRuns.
RunNewSymbols(free, escape) ==
  IF escape = free THEN 0 ELSE escape - free + 1

RunSymbolsInUse(runs, free, escape) ==
  IF RunNewSymbols(free, escape) > 0 THEN escape + 1
  ELSE IF free < Len(runs) THEN free ELSE Len(runs)

RunReplacements(runs, free, escape) ==
  IF RunNewSymbols(free, escape) > 0
    THEN RunSymbolsInUse(runs, free, escape) - 1
    ELSE RunSymbolsInUse(runs, free, escape)

\* longruns::LogFloor
RECURSIVE RunLogFloor(_)
RunLogFloor(n) == IF n > 1 THEN 1 + RunLogFloor(n \div 2) ELSE 0

\* The header of the runs i, i + 2, ... below limit, two runs to five bytes.
RECURSIVE RunHeaderPairs(_, _, _, _)
RunHeaderPairs(freq, runs, i, limit) ==
  IF i >= limit THEN <<>>
  ELSE <<freq[i].first,
         (RunLogFloor(runs[i + 1].length) * 16
            + RunLogFloor(runs[i + 2].length)) % 256,
         runs[i + 1].symbol,
         freq[i + 1].first,
         runs[i + 2].symbol>>
         \o RunHeaderPairs(freq, runs, i + 2, limit)

\* The end of the header, n being run_replacements and limit the even number
\* up to it.
RunHeaderEnd(freq, runs, n, limit, sentinel) ==
  IF n # limit
    THEN <<freq[limit].first,
           (RunLogFloor(runs[limit + 1].length) * 16) % 256,
           runs[limit + 1].symbol, sentinel>>
    ELSE <<sentinel, 0>>

\* The header that CompressLongRuns writes to temp.
RunHeader(freq, runs, free, escape) ==
  IF RunSymbolsInUse(runs, free, escape) > 0
    THEN RunHeaderPairs(freq, runs, 0,
                        RunReplacements(runs, free, escape)
                          - (RunReplacements(runs, free, escape) % 2))
           \o RunHeaderEnd(freq, runs, RunReplacements(runs, free, escape),
                           RunReplacements(runs, free, escape)
                             - (RunReplacements(runs, free, escape) % 2),
                           IF escape # free THEN freq[escape].first
                           ELSE freq[RunSymbolsInUse(runs, free, escape) - 1].first)
    ELSE <<0, 0>>

\* replacements[symbol], a map from lengths to bytes: its keys, and its
\* value at a key. The length 1 gives the symbol, or the escape byte for a
\* freed symbol; insert keeps the first run of a length.
ReplacementLengths(runs, free, escape, symbol) ==
  {1} \cup {runs[i].length : i \in {j \in 1..RunReplacements(runs, free, escape) :
                                      runs[j].symbol = symbol}}

\* replacements[symbol] had no loop over the escaped characters been run.
ReplacementUnescaped(freq, runs, free, escape, symbol, length) ==
  IF length = 1 THEN symbol
  ELSE freq[(CHOOSE i \in 1..RunReplacements(runs, free, escape) :
               runs[i].symbol = symbol /\ runs[i].length = length) - 1].first

ReplacementAt(freq, runs, free, escape, symbol, length) ==
  IF length = 1
    THEN IF RunNewSymbols(free, escape) > 0
              /\ \E i \in free..escape : freq[i].first = symbol
           THEN freq[escape].first ELSE symbol
    ELSE freq[(CHOOSE i \in 1..RunReplacements(runs, free, escape) :
                 /\ runs[i].symbol = symbol /\ runs[i].length = length
                 /\ \A j \in 1..(i - 1) :
                      ~(runs[j].symbol = symbol /\ runs[j].length = length)) - 1].first

\* CompressLongRuns from the return of FindReplaceableRuns to the call of
\* WriteReplacements.
CompressLongRunsHeader ==
  /\ pc = "runs_found"
  /\ LET e == RunEscapeCharIndex(freq_, location_, longest_runs, free_symbols)
     IN /\ freq_' = e.table.freq
        /\ location_' = e.table.loc
        /\ escape_index' = e.index
        /\ lr_temp' = [header |-> RunHeader(e.table.freq, longest_runs,
                                            free_symbols, e.index),
                       pieces |-> <<>>]
  /\ position' = Len(lr_temp'.header)
  /\ lr_i' = 0
  /\ pc' = "write_runs"
  /\ UNCHANGED <<ftCallVars, dzVars, coderVars, cp_block, cp_from, pair_freq,
                 cp_seen, current_pair, cp_limit, replaceable_pairs, free_symbols, cp_temp, wr_i,
                 total_size, hpVars, lr_block, run_freq, longest_runs,
                 lr_last, afterLrVars>>

\* longruns::WriteRunReplacement: the pieces written for what is left of a
\* run, lens being the keys of repl not yet passed.
RECURSIVE WriteRunFrom(_, _, _, _, _, _, _)
WriteRunFrom(freq, runs, free, escape, symbol, lens, run_length) ==
  IF run_length = 0 \/ lens = {} THEN <<>>
  ELSE LET length == CHOOSE l \in lens : \A o \in lens : o <= l
           byte == ReplacementAt(freq, runs, free, escape, symbol, length)
       IN IF length = 1 /\ RunNewSymbols(free, escape) > 0
               /\ byte = freq[escape].first
            THEN <<[bytes |-> <<freq[escape].first, symbol>>,
                    times |-> run_length \div length]>>
            ELSE (IF run_length \div length > 0
                    THEN <<[bytes |-> <<byte>>,
                            times |-> run_length \div length]>>
                    ELSE <<>>)
                   \o WriteRunFrom(freq, runs, free, escape, symbol,
                                   lens \ {length}, run_length % length)

WriteRunReplacement(freq, runs, free, escape, symbol, run_length) ==
  WriteRunFrom(freq, runs, free, escape, symbol,
               ReplacementLengths(runs, free, escape, symbol), run_length)

\* longruns::WriteReplacements: the call of WriteRunReplacement for one run.
WriteRunReplacementsStep ==
  /\ pc = "write_runs"
  /\ LET chunk == RunChunks(lr_block)[lr_i + 1]
         out == WriteRunReplacement(freq_, longest_runs, free_symbols,
                                    escape_index, chunk.symbol, chunk.length)
     IN /\ lr_temp' = [lr_temp EXCEPT !.pieces = @ \o out]
        /\ lr_last' = [symbol |-> chunk.symbol, length |-> chunk.length,
                       pieces |-> out]
  /\ lr_i' = lr_i + 1
  /\ pc' = IF lr_i' = Len(RunChunks(lr_block)) THEN "runs_written"
           ELSE "write_runs"
  /\ UNCHANGED <<freqVars, dzVars, coderVars, cpVars, hpVars, lr_block,
                 run_freq, longest_runs, afterLrVars>>

\* The number of bytes of a list of pieces.
RECURSIVE PiecesSize(_, _, _)
PiecesSize(pieces, lo, hi) ==
  IF lo > hi THEN 0
  ELSE IF lo = hi THEN Len(pieces[lo].bytes) * pieces[lo].times
  ELSE PiecesSize(pieces, lo, (lo + hi) \div 2)
         + PiecesSize(pieces, (lo + hi) \div 2 + 1, hi)

\* The number of bytes of a block.
RECURSIVE BlockSize(_, _, _)
BlockSize(block, lo, hi) ==
  IF lo > hi THEN 0
  ELSE IF lo = hi THEN block[lo].length
  ELSE BlockSize(block, lo, (lo + hi) \div 2)
         + BlockSize(block, (lo + hi) \div 2 + 1, hi)

\* CompressLongRuns after WriteReplacements: the size and its assertion; the
\* bytes of temp are copied to the block.
CompressLongRunsEnd ==
  /\ pc = "runs_written"
  /\ total_size' = position + PiecesSize(lr_temp.pieces, 1, Len(lr_temp.pieces))
  /\ pc' = IF total_size' > BlockSize(lr_block, 1, Len(lr_block)) + 2 /\ ~ndebug
             THEN "aborted" ELSE "runs_replaced"
  /\ UNCHANGED <<freqVars, dzVars, coderVars, cp_block, cp_from, pair_freq,
                 cp_seen, current_pair, cp_limit, replaceable_pairs, free_symbols, escape_index,
                 cp_temp, position, wr_i, hpVars, lrVars, afterLrVars>>


\* The blocks given to CompressLongRuns, each as its maximal runs: up to
\* MaxRuns runs of two bytes, and blocks that hold every byte from lo on
\* before their runs, which leave no or one symbol free.
BlockRunLengths == {1, 2, 13, 40000}

RunsOfBytes(first, lengths) ==
  [k \in 1..Len(lengths) |->
     [symbol |-> IF k % 2 = 1 THEN first ELSE 195 - first,
      length |-> lengths[k]]]

ShortRunBlocks ==
  {RunsOfBytes(first, lengths) :
     first \in {97, 98},
     lengths \in UNION {[1..n -> BlockRunLengths] : n \in 1..MaxRuns}}

EveryByteFrom(lo) ==
  [k \in 1..(256 - lo) |-> [symbol |-> k + lo - 1, length |-> 1]]

CrowdedRunBlocks ==
  {EveryByteFrom(lo) \o RunsOfBytes(97, lengths) :
     lo \in {0, 1},
     lengths \in {<<64, 1>>, <<64, 64, 1>>, <<3, 64, 1>>, <<12, 1, 12, 1>>,
                 <<9, 12, 6>>}}

RunBlocks == ShortRunBlocks \cup CrowdedRunBlocks

LongRunsInit ==
  /\ pc = "block_of_runs"
  /\ lr_block \in RunBlocks
  /\ ndebug \in BOOLEAN
  /\ run_freq = <<>>
  /\ longest_runs = <<>>
  /\ lr_temp = <<>>
  /\ lr_i = 0
  /\ lr_last = <<>>
  /\ AfterLrIdle
  /\ HpIdle
  /\ CpIdle
  /\ FreqIdle
  /\ DzIdle
  /\ m_in = <<>>
  /\ in_pos = 0
  /\ in_bit = 0
  /\ m_out = <<>>
  /\ PackIdle
  /\ RpiIdle
  /\ EncIdle
  /\ RbhIdle
  /\ TrailerIdle
  /\ PayloadIdle

LongRunsNext ==
  \/ CompressLongRunsBegin
  \/ FindReplaceableRunsStep
  \/ CompressLongRunsHeader
  \/ WriteRunReplacementsStep
  \/ CompressLongRunsEnd

SpecRuns == LongRunsInit /\ [][LongRunsNext]_vars

\* The header read back: the number of its rules, its rule k as
\* [byte, symbol, length], its sentinel, and whether an escape byte is in use.
HeaderRunCount(h) == 2 * (Len(h) \div 5) + (IF Len(h) % 5 = 4 THEN 1 ELSE 0)

HeaderRunRule(h, k) ==
  LET base == 5 * ((k - 1) \div 2)
  IN IF k % 2 = 1
       THEN [byte |-> h[base + 1], symbol |-> h[base + 3],
             length |-> Pow2(h[base + 2] \div 16)]
       ELSE [byte |-> h[base + 4], symbol |-> h[base + 5],
             length |-> Pow2(h[base + 2] % 16)]

HeaderRunSentinel(h) ==
  IF Len(h) % 5 = 4 THEN h[Len(h)] ELSE h[Len(h) - 1]

HeaderRunEscaping(h) ==
  /\ HeaderRunCount(h) > 0
  /\ HeaderRunSentinel(h) # HeaderRunRule(h, HeaderRunCount(h)).byte

\* What a byte of the payload stands for; no run when it is the escape byte.
StandsFor(h, byte) ==
  IF HeaderRunEscaping(h) /\ byte = HeaderRunSentinel(h)
    THEN [symbol |-> byte, length |-> 0]
  ELSE IF \E k \in 1..HeaderRunCount(h) : HeaderRunRule(h, k).byte = byte
    THEN LET k == CHOOSE r \in 1..HeaderRunCount(h) :
                    HeaderRunRule(h, r).byte = byte
         IN [symbol |-> HeaderRunRule(h, k).symbol,
             length |-> HeaderRunRule(h, k).length]
  ELSE [symbol |-> byte, length |-> 1]

\* What a written piece stands for: an escaped byte stands for itself.
PieceStandsFor(h, piece) ==
  IF Len(piece.bytes) = 2
    THEN IF HeaderRunEscaping(h) /\ piece.bytes[1] = HeaderRunSentinel(h)
           THEN [symbol |-> piece.bytes[2], length |-> 1]
           ELSE [symbol |-> piece.bytes[1], length |-> 0]
    ELSE StandsFor(h, piece.bytes[1])

\* The bytes that the pieces k.. stand for.
RECURSIVE PiecesLength(_, _, _)
PiecesLength(h, pieces, k) ==
  IF k > Len(pieces) THEN 0
  ELSE PieceStandsFor(h, pieces[k]).length * pieces[k].times
         + PiecesLength(h, pieces, k + 1)

\* Two lists of runs as one: runs of one byte that meet are one run.
JoinRuns(left, right) ==
  IF left # <<>> /\ right # <<>>
       /\ left[Len(left)].symbol = right[1].symbol
    THEN [left EXCEPT ![Len(left)].length = @ + right[1].length]
           \o Tail(right)
    ELSE left \o right

\* The runs that the pieces lo..hi expand to, by halves.
RECURSIVE ExpandRuns(_, _, _, _)
ExpandRuns(h, pieces, lo, hi) ==
  IF lo > hi THEN <<>>
  ELSE IF lo = hi
    THEN <<[symbol |-> PieceStandsFor(h, pieces[lo]).symbol,
            length |-> PieceStandsFor(h, pieces[lo]).length
                         * pieces[lo].times]>>
  ELSE JoinRuns(ExpandRuns(h, pieces, lo, (lo + hi) \div 2),
                ExpandRuns(h, pieces, (lo + hi) \div 2 + 1, hi))

\* C25: FindReplaceableRuns never calls DeleteMax on a heap with no triple
\* left in it, and the rules it appends to longest_runs are distinct: no
\* two of them have the same symbol and the same length.
C25_RunsAreDistinct ==
  /\ pc = "runs" => last_ >= 0
  /\ \A i, j \in 1..Len(longest_runs) :
       (/\ longest_runs[i].symbol = longest_runs[j].symbol
        /\ longest_runs[i].length = longest_runs[j].length) => i = j

\* A rule has been appended twice with the assertions on, by calls of
\* DeleteMax on the emptied heap.
C25_WitnessTwice ==
  /\ ~ndebug
  /\ pc = "runs_found"
  /\ last_ < 0
  /\ \E i \in 1..(Len(longest_runs) - 1) : longest_runs[i] = longest_runs[i + 1]

\* C26: CompressLongRuns returns a size of at most the length of the block
\* plus two, so that its assertion holds and temp, of length + 2 bytes, is
\* never written past its end.
C26_SizeWithinTemp ==
  /\ pc # "aborted"
  /\ pc = "runs_replaced" =>
       total_size <= BlockSize(lr_block, 1, Len(lr_block)) + 2

\* The assertion is compiled out and the size returned is the length plus
\* four: every byte is in the block, and the escape byte costs more than the
\* rules save.
C26_WitnessPastTemp ==
  /\ pc = "runs_replaced"
  /\ ndebug
  /\ free_symbols = 0
  /\ total_size = BlockSize(lr_block, 1, Len(lr_block)) + 4

\* C17: the pieces that WriteRunReplacement writes for a run stand for runs
\* of its byte whose lengths never grow from one piece to the next and add
\* up to the length of the run, and the payload that CompressLongRuns
\* leaves expands by the rules of its header to the block it was given.
C17_RunsAreDecomposed ==
  /\ lr_last # <<>> =>
       /\ \A k \in 1..Len(lr_last.pieces) :
            /\ PieceStandsFor(lr_temp.header, lr_last.pieces[k]).symbol
                 = lr_last.symbol
            /\ PieceStandsFor(lr_temp.header, lr_last.pieces[k]).length > 0
            /\ k > 1 =>
                 PieceStandsFor(lr_temp.header, lr_last.pieces[k]).length
                   <= PieceStandsFor(lr_temp.header,
                                     lr_last.pieces[k - 1]).length
       /\ PiecesLength(lr_temp.header, lr_last.pieces, 1) = lr_last.length
  /\ pc \in {"runs_written", "runs_replaced"} =>
       ExpandRuns(lr_temp.header, lr_temp.pieces, 1, Len(lr_temp.pieces))
         = lr_block

\* In a block with a run of more than kMaxLenOfSeq bytes, a run is written as
\* pieces that stand for runs of three lengths.
C17_Witness ==
  /\ lr_last # <<>>
  /\ lr_block[1].length > kMaxLenOfSeq
  /\ lr_i > 2
  /\ Len(lr_last.pieces) >= 3
  /\ PieceStandsFor(lr_temp.header, lr_last.pieces[1]).length
       > PieceStandsFor(lr_temp.header, lr_last.pieces[2]).length
  /\ PieceStandsFor(lr_temp.header, lr_last.pieces[2]).length
       > PieceStandsFor(lr_temp.header, lr_last.pieces[3]).length

\* A byte is written behind the escape byte.
C17_WitnessEscaped ==
  /\ pc = "runs_replaced"
  /\ \E k \in 1..Len(lr_temp.pieces) : Len(lr_temp.pieces[k].bytes) = 2


-----------------------------------------------------------------------------
(* The wavelet tree of one section: its construction on the bytes, the     *)
(* shape as treeShape gives it and as WaveletEncoder::encodeData writes    *)
(* it, readShape on those bytes, and message.                               *)

\* Longest message whose bytes are all enumerated.
MaxMessage == 3

WaveletSymbols == {97, 98, 99}

\* The bytes of a message and the count of each.
AlphabetOf(msg) == {msg[k] : k \in 1..Len(msg)}

CountIn(msg, b) == Cardinality({k \in 1..Len(msg) : msg[k] = b})

\* A tree is the code of each of its bytes: the path from the root to the
\* leaf of the byte, 0 to the left and 1 to the right. Two trees under a new
\* node, each with its weight.
MergeTrees(left, right) ==
  [codes |-> [b \in DOMAIN left.codes \cup DOMAIN right.codes |->
                IF b \in DOMAIN left.codes THEN <<0>> \o left.codes[b]
                ELSE <<1>> \o right.codes[b]],
   weight |-> left.weight + right.weight]

\* The two lightest trees of a forest, the lightest first.
LightestTwo(forest) ==
  {p \in forest \X forest :
     /\ p[1] # p[2]
     /\ \A o \in forest : p[1].weight <= o.weight
     /\ \A o \in forest \ {p[1]} : p[2].weight <= o.weight}

\* The Huffman shapes of a forest: the two lightest trees are put under a
\* new node, the lightest to the right, until one tree is left.
RECURSIVE HuffmanShapes(_)
HuffmanShapes(forest) ==
  IF Cardinality(forest) = 1 THEN {t.codes : t \in forest}
  ELSE UNION {HuffmanShapes((forest \ {p[1], p[2]})
                              \cup {MergeTrees(p[2], p[1])}) :
                p \in LightestTwo(forest)}

\* createHuffmanShape: a lone byte is the left child of the root.
CreateHuffmanShape(msg) ==
  IF Cardinality(AlphabetOf(msg)) = 1
    THEN {[b \in AlphabetOf(msg) |-> <<0>>]}
    ELSE HuffmanShapes({[codes |-> [c \in {b} |-> <<>>],
                         weight |-> CountIn(msg, b)] : b \in AlphabetOf(msg)})

\* The inner nodes of a tree, by their paths.
InnerNodes(codes) ==
  UNION {{SubSeq(codes[b], 1, k) : k \in 0..(Len(codes[b]) - 1)} :
           b \in DOMAIN codes}


\* The bit that a byte b appends to the vector of the inner node p on its
\* path: the step that its code takes at p.
NodeBitOfRoot(codes, p, b) == codes[b][1]

NodeBit(codes, p, b) == codes[b][Len(p) + 1]

\* The bit vector of the inner node p: one bit for every byte of the
\* message that passes p, in the order of the message.
RECURSIVE NodeVectorFrom(_, _, _, _)
NodeVectorFrom(codes, msg, p, k) ==
  IF k > Len(msg) THEN <<>>
  ELSE (IF IsPrefix(p, codes[msg[k]]) /\ Len(p) < Len(codes[msg[k]])
          THEN <<NodeBit(codes, p, msg[k])>> ELSE <<>>)
         \o NodeVectorFrom(codes, msg, p, k + 1)

NodeVectors(codes, msg) ==
  [p \in InnerNodes(codes) |-> NodeVectorFrom(codes, msg, p, 1)]

\* WaveletTree(src, length): the shape and the bit vectors.
WaveletTreeConstruct ==
  /\ pc = "wavelet"
  /\ wv_codes' \in CreateHuffmanShape(wv_msg)
  /\ wv_vectors' = NodeVectors(wv_codes', wv_msg)
  /\ pc' = "wv_built"
  /\ UNCHANGED <<freqVars, dzVars, coderVars, cpVars, hpVars, lrVars, afterWvVars,
                 wv_msg, wv_shape, wv_in, wv_bitsRead, wv_read, wv_out>>

\* The elements of a set of bytes in ascending order.
RECURSIVE Ascending(_)
Ascending(set) ==
  IF set = {} THEN <<>>
  ELSE LET least == CHOOSE b \in set : \A o \in set : b <= o
       IN <<least>> \o Ascending(set \ {least})

\* treeShape below the node p, in preorder: an inner node gives one bit for
\* each of its bytes in ascending order, the side that the byte goes to; a
\* leaf gives nothing.
RECURSIVE ShapeOfNode(_, _)
ShapeOfNode(codes, p) ==
  IF p \notin InnerNodes(codes) THEN <<>>
  ELSE LET bytes == Ascending({b \in DOMAIN codes : IsPrefix(p, codes[b])})
       IN [k \in 1..Len(bytes) |-> codes[bytes[k]][Len(p) + 1]]
            \o ShapeOfNode(codes, p \o <<0>>)
            \o ShapeOfNode(codes, p \o <<1>>)

\* treeShape: a bit for each of the 256 bytes, set when the byte occurs, and
\* then the nodes.
TreeShape(codes) ==
  [b \in 1..256 |-> IF (b - 1) \in DOMAIN codes THEN 1 ELSE 0]
    \o ShapeOfNode(codes, <<>>)

\* wavelet.treeShape(shape)
TreeShapeStep ==
  /\ pc = "wv_built"
  /\ wv_shape' = TreeShape(wv_codes)
  /\ pc' = "wv_shaped"
  /\ UNCHANGED <<freqVars, dzVars, coderVars, cpVars, hpVars, lrVars, afterWvVars,
                 wv_msg, wv_codes, wv_vectors, wv_in, wv_bitsRead, wv_read,
                 wv_out>>

\* The byte number k that encodeData writes for the shape had the last byte
\* not been shifted.
ShapeByteUnshifted(shape, k) ==
  IF 8 * k <= Len(shape)
    THEN SumRange([j \in 1..8 |-> shape[8 * (k - 1) + j] * Pow2(8 - j)], 1, 8)
    ELSE SumRange([j \in 1..(Len(shape) - 8 * (k - 1)) |->
                     shape[8 * (k - 1) + j]
                       * Pow2(Len(shape) - 8 * (k - 1) - j)],
                  1, Len(shape) - 8 * (k - 1))

\* The byte number k that encodeData writes for the shape: eight bits, the
\* first the most significant, the last byte shifted up to its place.
ShapeByte(shape, k) ==
  SumRange([j \in 1..8 |-> BitAt(shape, 8 * (k - 1) + j) * Pow2(8 - j)], 1, 8)

ShapeBytes(shape) ==
  [k \in 1..((Len(shape) + 7) \div 8) |-> ShapeByte(shape, k)]

\* encodeData: the shape vector is written to the output.
EncodeShape ==
  /\ pc = "wv_shaped"
  /\ wv_in' = ShapeBytes(wv_shape)
  /\ pc' = "wv_written"
  /\ UNCHANGED <<freqVars, dzVars, coderVars, cpVars, hpVars, lrVars, afterWvVars,
                 wv_msg, wv_codes, wv_vectors, wv_shape, wv_bitsRead, wv_read,
                 wv_out>>

\* The bytes whose bit is set among the first 256 bits of the stream.
AlphabetRead(stream) == {b \in 0..255 : ReadBitAt(stream, b) = 1}

\* The bytes of a list whose bit, read from pos on, is the given one.
SideOf(stream, bytes, pos, bit) ==
  SelectSeq(bytes, LAMBDA b :
    \E k \in 1..Len(bytes) :
      bytes[k] = b /\ ReadBitAt(stream, pos + k - 1) = bit)

\* readShape for one node with its bytes in ascending order, from the bit
\* number pos on: the codes below the node and the bit number after them.
\* A lone byte is a leaf, except at the root; nothing is read past the end.
RECURSIVE ReadNode(_, _, _, _)
ReadNode(stream, bytes, pos, root) ==
  IF Len(bytes) = 1 /\ ~root
    THEN [codes |-> [b \in {bytes[1]} |-> <<>>], pos |-> pos]
  ELSE IF pos + Len(bytes) > 8 * Len(stream)
    THEN [codes |-> <<>>, pos |-> pos + Len(bytes)]
  ELSE LET l == IF SideOf(stream, bytes, pos, 0) = <<>>
                  THEN [codes |-> <<>>, pos |-> pos + Len(bytes)]
                  ELSE ReadNode(stream, SideOf(stream, bytes, pos, 0),
                                pos + Len(bytes), FALSE)
           r == IF SideOf(stream, bytes, pos, 1) = <<>>
                  THEN [codes |-> <<>>, pos |-> l.pos]
                  ELSE ReadNode(stream, SideOf(stream, bytes, pos, 1),
                                l.pos, FALSE)
       IN [codes |-> [b \in DOMAIN l.codes \cup DOMAIN r.codes |->
                        IF b \in DOMAIN l.codes THEN <<0>> \o l.codes[b]
                        ELSE <<1>> \o r.codes[b]],
           pos |-> r.pos]

\* readShape: the 256 bits of the bytes and then the nodes.
ReadShape(stream) ==
  ReadNode(stream, Ascending(AlphabetRead(stream)), 256, TRUE)

\* size_t bits = wavelet.readShape(*in)
ReadShapeStep ==
  /\ pc = "wv_written"
  /\ wv_read' = [bits |-> ReadShape(wv_in).pos, codes |-> ReadShape(wv_in).codes]
  /\ wv_bitsRead' = ReadShape(wv_in).pos
  /\ pc' = "wv_read"
  /\ UNCHANGED <<freqVars, dzVars, coderVars, cpVars, hpVars, lrVars, afterWvVars,
                 wv_msg, wv_codes, wv_vectors, wv_shape, wv_in, wv_out>>

\* message for one byte: from the node p down, each inner node gives its
\* next bit; [symbol, cursors], the symbol -1 when there is no such bit or
\* no such node.
RECURSIVE Descend(_, _, _, _)
Descend(codes, vectors, cursors, p) ==
  IF \E b \in DOMAIN codes : codes[b] = p
    THEN [symbol |-> CHOOSE b \in DOMAIN codes : codes[b] = p,
          cursors |-> cursors]
  ELSE IF p \notin DOMAIN vectors \/ cursors[p] >= Len(vectors[p])
    THEN [symbol |-> -1, cursors |-> cursors]
  ELSE Descend(codes, vectors, [cursors EXCEPT ![p] = @ + 1],
               p \o <<vectors[p][cursors[p] + 1]>>)

\* message: as many bytes as the root has bits.
RECURSIVE MessageFrom(_, _, _, _)
MessageFrom(codes, vectors, cursors, n) ==
  IF n = 0 THEN <<>>
  ELSE <<Descend(codes, vectors, cursors, <<>>).symbol>>
         \o MessageFrom(codes, vectors,
                        Descend(codes, vectors, cursors, <<>>).cursors, n - 1)

Message(codes, vectors) ==
  MessageFrom(codes, vectors, [p \in DOMAIN vectors |-> 0], Len(vectors[<<>>]))

\* tree.message(msg)
MessageStep ==
  /\ pc = "wv_read"
  /\ wv_out' = Message(wv_codes, wv_vectors)
  /\ pc' = "wv_done"
  /\ UNCHANGED <<freqVars, dzVars, coderVars, cpVars, hpVars, lrVars, afterWvVars,
                 wv_msg, wv_codes, wv_vectors, wv_shape, wv_in, wv_bitsRead,
                 wv_read>>

\* The messages: every message of up to MaxMessage bytes, and those of the
\* tests.
TestMessages ==
  {<<97, 97, 97, 98, 98, 97, 97, 97, 99, 98, 99, 98>>,
   <<97, 97, 97, 97, 97, 97, 97, 97, 97, 97, 97, 97, 97, 97, 99>>,
   <<97, 97, 97, 97, 97, 97>>,
   <<97, 97, 97, 97, 97, 97, 97, 97>>,
   <<97, 104, 97, 104, 97, 98, 97, 104, 98, 97, 104, 97, 101, 97, 101, 97, 98, 101, 97, 98, 97, 98, 97, 98, 97>>,
   <<97, 98, 99, 100, 97, 98, 99, 100, 97, 98, 99, 100, 97, 98, 99, 97, 98, 97>>}

Messages ==
  UNION {[1..n -> WaveletSymbols] : n \in 1..MaxMessage} \cup TestMessages

WaveletInit ==
  /\ pc = "wavelet"
  /\ wv_msg \in Messages
  /\ wv_codes = <<>>
  /\ wv_vectors = <<>>
  /\ wv_shape = <<>>
  /\ wv_in = <<>>
  /\ wv_bitsRead = 0
  /\ wv_read = <<>>
  /\ wv_out = <<>>
  /\ PmIdle
  /\ ndebug = FALSE
  /\ LrIdle
  /\ HpIdle
  /\ CpIdle
  /\ FreqIdle
  /\ DzIdle
  /\ m_in = <<>>
  /\ in_pos = 0
  /\ in_bit = 0
  /\ m_out = <<>>
  /\ PackIdle
  /\ RpiIdle
  /\ EncIdle
  /\ RbhIdle
  /\ TrailerIdle
  /\ PayloadIdle

WaveletNext ==
  \/ WaveletTreeConstruct
  \/ TreeShapeStep
  \/ EncodeShape
  \/ ReadShapeStep
  \/ MessageStep

SpecWavelet == WaveletInit /\ [][WaveletNext]_vars

\* C19: message gives the bytes the tree was built on, as many and in the
\* same order.
C19_MessageIsInput ==
  pc = "wv_done" => wv_out = wv_msg

\* message has given a message of three different bytes.
C19_Witness ==
  /\ pc = "wv_done"
  /\ Cardinality(AlphabetOf(wv_msg)) = 3
  /\ wv_out = wv_msg

\* message has given a message of one byte, repeated.
C19_WitnessOneSymbol ==
  /\ pc = "wv_done"
  /\ Cardinality(AlphabetOf(wv_msg)) = 1
  /\ Len(wv_msg) > 1
  /\ wv_out = wv_msg

\* C20: readShape on the bits of treeShape takes as many bits as treeShape
\* gave, returns that number and leaves every byte that occurs with the code
\* it has in the tree; for a message of one byte the shape has 257 bits, the
\* bit of the byte alone set among the first 256 and then a bit 0, and the
\* code of the byte is the one bit 0.
C20_ShapeRoundTrip ==
  pc \in {"wv_read", "wv_done"} =>
    /\ wv_bitsRead = Len(wv_shape)
    /\ wv_read.bits = Len(wv_shape)
    /\ wv_read.codes = wv_codes
    /\ DOMAIN wv_codes = AlphabetOf(wv_msg)
    /\ Cardinality(AlphabetOf(wv_msg)) = 1 =>
         /\ Len(wv_shape) = 257
         /\ \A k \in 1..256 : wv_shape[k] = 1 <=> (k - 1) \in AlphabetOf(wv_msg)
         /\ wv_shape[257] = 0
         /\ \A b \in AlphabetOf(wv_msg) : wv_read.codes[b] = <<0>>

\* readShape has read the shape of a tree of more than two levels.
C20_Witness ==
  /\ pc = "wv_read"
  /\ \E b \in DOMAIN wv_codes : Len(wv_codes[b]) >= 3
  /\ wv_read.codes = wv_codes
  /\ wv_bitsRead = Len(wv_shape)

\* readShape has read the shape of a tree of one byte.
C20_WitnessOneSymbol ==
  /\ pc = "wv_read"
  /\ Cardinality(DOMAIN wv_codes) = 1
  /\ Len(wv_shape) = 257
  /\ wv_read.bits = 257

-----------------------------------------------------------------------------
(* ProbabilityModel: a model that is used and then reset, beside a model    *)
(* that has just been constructed.                                          *)

\* The most calls of update before resetModel, and the most calls after it.
MaxBits == 3

\* kProbabilityScale of globaldefs.hpp: probabilities are scaled to 16 bits.
kProbabilityScale == 65536

\* ProbabilityModel::ProbabilityModel: m_prev of a new model.
NewModel == TRUE

\* ProbabilityModel::update: m_prev after the call.
UpdateModel(prev, bit) == bit

\* ProbabilityModel::probabilityOfOne.
ProbabilityOfOne(prev) == IF prev THEN kProbabilityScale - 1 ELSE 1

\* ProbabilityModel::resetModel: m_prev after the call.
ResetModelKept(prev) == prev

ResetModel(prev) == TRUE

\* update(bit) on the model that is going to be reset.
ModelUpdate ==
  /\ pc = "model"
  /\ Len(pm_used) < MaxBits
  /\ \E bit \in BOOLEAN :
       /\ m_prev' = UpdateModel(m_prev, bit)
       /\ pm_used' = Append(pm_used, bit)
  /\ UNCHANGED <<pc, freqVars, dzVars, coderVars, cpVars, hpVars, lrVars, wvVars,
                 ndebug, fresh_prev, pm_calls, pm_probs, fresh_probs>>

\* endContextBlock: resetModel on the model.
ModelReset ==
  /\ pc = "model"
  /\ m_prev' = ResetModel(m_prev)
  /\ pc' = "model_reset"
  /\ UNCHANGED <<freqVars, dzVars, coderVars, cpVars, hpVars, lrVars, wvVars,
                 ndebug, pm_used, fresh_prev, pm_calls, pm_probs, fresh_probs>>

\* probabilityOfOne on the model that was reset and on the fresh one.
ModelProbabilityOfOne ==
  /\ pc = "model_reset"
  /\ Len(pm_calls) < MaxBits
  /\ pm_calls' = Append(pm_calls, "probabilityOfOne")
  /\ pm_probs' = Append(pm_probs, ProbabilityOfOne(m_prev))
  /\ fresh_probs' = Append(fresh_probs, ProbabilityOfOne(fresh_prev))
  /\ UNCHANGED <<pc, freqVars, dzVars, coderVars, cpVars, hpVars, lrVars, wvVars,
                 ndebug, m_prev, pm_used, fresh_prev>>

\* update(bit) on both models, with the same bit.
ModelUpdateBoth ==
  /\ pc = "model_reset"
  /\ Len(pm_calls) < MaxBits
  /\ \E bit \in BOOLEAN :
       /\ m_prev' = UpdateModel(m_prev, bit)
       /\ fresh_prev' = UpdateModel(fresh_prev, bit)
       /\ pm_calls' = Append(pm_calls, bit)
  /\ UNCHANGED <<pc, freqVars, dzVars, coderVars, cpVars, hpVars, lrVars, wvVars,
                 ndebug, pm_used, pm_probs, fresh_probs>>

ModelInit ==
  /\ pc = "model"
  /\ m_prev = NewModel
  /\ fresh_prev = NewModel
  /\ pm_used = <<>>
  /\ pm_calls = <<>>
  /\ pm_probs = <<>>
  /\ fresh_probs = <<>>
  /\ ndebug = FALSE
  /\ FreqIdle
  /\ DzIdle
  /\ CpIdle
  /\ HpIdle
  /\ LrIdle
  /\ WvIdle
  /\ m_in = <<>>
  /\ in_pos = 0
  /\ in_bit = 0
  /\ m_out = <<>>
  /\ PackIdle
  /\ RpiIdle
  /\ EncIdle
  /\ RbhIdle
  /\ TrailerIdle
  /\ PayloadIdle

ModelNext ==
  \/ ModelUpdate
  \/ ModelReset
  \/ ModelProbabilityOfOne
  \/ ModelUpdateBoth

SpecModel == ModelInit /\ [][ModelNext]_vars

\* C22: after any calls of update, resetModel leaves the model in a state
\* from which every sequence of calls of probabilityOfOne and update returns
\* the probabilities that a model just constructed returns on the same
\* calls.
C22_ResetIsFresh ==
  pc = "model_reset" =>
    /\ pm_probs = fresh_probs
    /\ ProbabilityOfOne(m_prev) = ProbabilityOfOne(fresh_prev)

\* The model was reset after a 0 bit, and both probabilities have been
\* returned since.
C22_Witness ==
  /\ pc = "model_reset"
  /\ Len(pm_used) >= 2
  /\ pm_used[Len(pm_used)] = FALSE
  /\ Len(pm_probs) >= 2
  /\ pm_probs[1] = kProbabilityScale - 1
  /\ pm_probs[Len(pm_probs)] = 1

=============================================================================
